---------------------------- MODULE Spec2Model ----------------------------
(***************************************************************************)
(* The MBE container codec of the Hundred-Line MBE editor:                 *)
(* generateMbeFile (src/services/mbeGenerator.ts) and parseMbeFile         *)
(* (the parser module), over byte buffers; and the editor around it, the   *)
(* handlers of App and of SheetTable (src/components/SheetTable.tsx), as   *)
(* the steps of SpecEdit.                                                  *)
(*                                                                         *)
(* Representation.                                                         *)
(*   - a byte buffer is a sequence of 0..255; byte offset o is index o+1;  *)
(*   - a JavaScript string is the sequence of its Unicode code points;     *)
(*   - a JavaScript integer cell value n is the pair <<hi, lo>> with       *)
(*     n = hi * 65536 + lo and lo in 0..65535 (TLC's integers are 32 bits  *)
(*     wide, the model's values are not); the pair is unique, so           *)
(*     equality of pairs is equality of numbers;                           *)
(*   - a number that is no integer (NaN, an infinity) is a triple;         *)
(*   - sizes, counts and offsets are plain integers.                       *)
(***************************************************************************)
EXTENDS Integers, Sequences, FiniteSets, TLC

VARIABLES
    mbeFile,    \* the in-memory MbeFile handed to generateMbeFile
    gen,        \* what the last generateMbeFile call computed (bytes and bookkeeping)
    buffer,     \* the ArrayBuffer handed to parseMbeFile
    damage,     \* what was done to the buffer after it was generated
    parsed,     \* the outcome of the last parseMbeFile call
    pc,         \* "model" | "generated" | "saved" | "damaged" | "parsed" |
                \* "resaved" | "reparsed"; "failed" when generateMbeFile threw;
                \* "editing" in the editor
    resaved,    \* what generateMbeFile computed from the file that was parsed
    reparsed,   \* the outcome of parseMbeFile on the bytes of resaved
    isLoading,         \* App state (part_001 line 55)
    activeSheetIndex,  \* App state (line 57), 0-based
    error,             \* App state (line 56): "none" or the error shown
    csvImport,         \* the handleCsvImport call suspended at `await file.text()`
    fileLoad           \* the handleFileChange call suspended at its awaits

vars == <<mbeFile, gen, buffer, damage, parsed, pc, resaved, reparsed,
          isLoading, activeSheetIndex, error, csvImport, fileLoad>>

\* the variables of a save that follows a load
roundVars == <<resaved, reparsed>>

\* the variables of the editor, which the codec calls leave alone
editorVars == <<isLoading, activeSheetIndex, error, csvImport, fileLoad>>

\* the variables of the codec calls, which the editor leaves alone
codecVars == <<gen, buffer, damage, parsed, pc, resaved, reparsed>>

\* no call of a handler is suspended
NoCall == [active |-> FALSE]

---------------------------------------------------------------------------
(* constants.ts and types.ts *)

EXPA_MAGIC_BYTES == <<69, 88, 80, 65>>
CHNK_MAGIC_BYTES == <<67, 72, 78, 75>>

INT == 2
STR == 7
STRID == 8

\* a faulty variant of ColumnType: every tag from INT to STRID is taken for a
\* column type (a range test in place of the three cases)
ColumnTypeRange == INT..STRID

ColumnType == {INT, STR, STRID}

---------------------------------------------------------------------------
(* JavaScript numbers, DataView and the text codecs *)

\* the integer hi * 65536 + lo
Num(hi, lo) == <<hi, lo>>

\* a small integer as a number of the model
NumOf(n) == <<n \div 65536, n % 65536>>

\* ToInt32 of a number followed by its four little-endian bytes
\* (DataView.setInt32(0, value, true)): the low 32 bits, two's complement
Int32Bytes(n) ==
    <<n[2] % 256, n[2] \div 256, n[1] % 256, (n[1] \div 256) % 256>>

\* DataView.setUint32(0, value, true) of a count, a length or an offset
Uint32Bytes(v) ==
    <<v % 256, (v \div 256) % 256, (v \div 65536) % 256, (v \div 16777216) % 256>>

\* a faulty variant of getInt32: the four bytes read as an unsigned integer
getInt32Unsigned(view, off) ==
    Num(view[off + 4] * 256 + view[off + 3], view[off + 2] * 256 + view[off + 1])

\* the value of the signed 32-bit integer at byte offset off
getInt32(view, off) ==
    LET b0 == view[off + 1]
        b1 == view[off + 2]
        b2 == view[off + 3]
        b3 == view[off + 4]
    IN  Num((IF b3 >= 128 THEN b3 - 256 ELSE b3) * 256 + b2, b1 * 256 + b0)

\* the value of the unsigned 32-bit integer at byte offset off
getUint32(view, off) ==
    view[off + 1] + 256 * view[off + 2] + 65536 * view[off + 3]
        + 16777216 * view[off + 4]

\* the UTF-8 bytes of one code point
Utf8(cp) ==
    IF cp < 128 THEN <<cp>>
    ELSE IF cp < 2048 THEN <<192 + (cp \div 64), 128 + (cp % 64)>>
    ELSE IF cp < 65536
         THEN <<224 + (cp \div 4096), 128 + ((cp \div 64) % 64), 128 + (cp % 64)>>
         ELSE <<240 + (cp \div 262144), 128 + ((cp \div 4096) % 64),
                128 + ((cp \div 64) % 64), 128 + (cp % 64)>>

\* TextEncoder.encode
RECURSIVE TextEncode(_)
TextEncode(s) ==
    IF s = <<>> THEN <<>> ELSE Utf8(Head(s)) \o TextEncode(Tail(s))

\* U+FFFD REPLACEMENT CHARACTER, as a string
REPLACEMENT == <<65533>>

IsCont(bs, i, lo, hi) == i <= Len(bs) /\ bs[i] >= lo /\ bs[i] <= hi

\* TextDecoder('utf-8', {fatal: false, ignoreBOM: true}).decode, from index i:
\* an ill-formed sequence decodes to U+FFFD and decoding resumes at the first
\* byte that is not part of it
RECURSIVE TextDecodeFrom(_, _)
TextDecodeFrom(bs, i) ==
    IF i > Len(bs) THEN <<>>
    ELSE LET b == bs[i] IN
      IF b < 128 THEN <<b>> \o TextDecodeFrom(bs, i + 1)
      ELSE IF b >= 194 /\ b <= 223 THEN
        IF IsCont(bs, i + 1, 128, 191)
        THEN <<(b - 192) * 64 + (bs[i + 1] - 128)>> \o TextDecodeFrom(bs, i + 2)
        ELSE REPLACEMENT \o TextDecodeFrom(bs, i + 1)
      ELSE IF b >= 224 /\ b <= 239 THEN
        LET lo == IF b = 224 THEN 160 ELSE 128
            hi == IF b = 237 THEN 159 ELSE 191
        IN  IF ~IsCont(bs, i + 1, lo, hi)
            THEN REPLACEMENT \o TextDecodeFrom(bs, i + 1)
            ELSE IF ~IsCont(bs, i + 2, 128, 191)
            THEN REPLACEMENT \o TextDecodeFrom(bs, i + 2)
            ELSE <<(b - 224) * 4096 + (bs[i + 1] - 128) * 64 + (bs[i + 2] - 128)>>
                     \o TextDecodeFrom(bs, i + 3)
      ELSE IF b >= 240 /\ b <= 244 THEN
        LET lo == IF b = 240 THEN 144 ELSE 128
            hi == IF b = 244 THEN 143 ELSE 191
        IN  IF ~IsCont(bs, i + 1, lo, hi)
            THEN REPLACEMENT \o TextDecodeFrom(bs, i + 1)
            ELSE IF ~IsCont(bs, i + 2, 128, 191)
            THEN REPLACEMENT \o TextDecodeFrom(bs, i + 2)
            ELSE IF ~IsCont(bs, i + 3, 128, 191)
            THEN REPLACEMENT \o TextDecodeFrom(bs, i + 3)
            ELSE <<(b - 240) * 262144 + (bs[i + 1] - 128) * 4096
                     + (bs[i + 2] - 128) * 64 + (bs[i + 3] - 128)>>
                     \o TextDecodeFrom(bs, i + 4)
      ELSE REPLACEMENT \o TextDecodeFrom(bs, i + 1)

TextDecode(bs) == TextDecodeFrom(bs, 1)

\* e, with v evaluated first.  The loops below are recursive operators that
\* carry the loop's variables; TLC evaluates an operator's arguments only when
\* they are used, so each iteration evaluates its variables before the next.
Strict(v, e) == IF v = v THEN e ELSE e

\* new Uint8Array(n): n zero bytes
Zeros(n) == [k \in 1..n |-> 0]

---------------------------------------------------------------------------
(* ArrayBufferWriter (mbeGenerator.ts).  bytes is the concatenation of the  *)
(* pushed chunks, which toArrayBuffer returns; thrown tells that the call   *)
(* using the writer has thrown; u32At records the offset of                 *)
(* every writeUint32 / writeInt32 call.                                     *)

\* a faulty variant of NewWriter: one writer kept from call to call, so that a
\* call starts from the bytes of the call before
KeptWriter ==
    [bytes |-> buffer, currentOffset |-> Len(buffer), u32At |-> {}, thrown |-> FALSE]

NewWriter == [bytes |-> <<>>, currentOffset |-> 0, u32At |-> {}, thrown |-> FALSE]

writeBytes(w, bs) ==
    [w EXCEPT !.bytes = @ \o bs, !.currentOffset = @ + Len(bs)]

writeUint32(w, value) ==
    writeBytes([w EXCEPT !.u32At = @ \cup {w.currentOffset}], Uint32Bytes(value))

\* a faulty variant of writeInt32: the most significant byte first
writeInt32BigEndian(w, value) ==
    LET bs == Int32Bytes(value) IN
    writeBytes([w EXCEPT !.u32At = @ \cup {w.currentOffset}],
               <<bs[4], bs[3], bs[2], bs[1]>>)

writeInt32(w, value) ==
    writeBytes([w EXCEPT !.u32At = @ \cup {w.currentOffset}], Int32Bytes(value))

---------------------------------------------------------------------------
(* generateMbeFile (mbeGenerator.ts) *)

\* a faulty variant of ColumnWidth: every column counted as 4 bytes wide
ColumnWidthFour(type) == 4

ColumnWidth(type) == IF type = INT THEN 4 ELSE 8

\* lines 68-76: 4 per INT column, 8 per other column
RECURSIVE calculatedExpaAreaSizePerRow(_)
calculatedExpaAreaSizePerRow(columns) ==
    IF columns = <<>> THEN 0
    ELSE ColumnWidth(Head(columns).type) + calculatedExpaAreaSizePerRow(Tail(columns))

\* a faulty variant of sheetStructureInfos: the stride is taken from the
\* sheet's parsedExpaAreaSizePerRow
sheetStructureInfosParsedStride(file) ==
    [i \in 1..Len(file.sheets) |->
        LET sheet == file.sheets[i] IN
        [originalName       |-> sheet.name,
         encodedNameBytes   |-> TextEncode(sheet.name),
         columnTypes        |-> [c \in 1..Len(sheet.columns) |-> sheet.columns[c].type],
         expaAreaSizePerRow |-> sheet.parsedExpaAreaSizePerRow,
         rowCount           |-> Len(sheet.rows)]]

\* Phase 1
sheetStructureInfos(file) ==
    [i \in 1..Len(file.sheets) |->
        LET sheet == file.sheets[i] IN
        [originalName       |-> sheet.name,
         encodedNameBytes   |-> TextEncode(sheet.name),
         columnTypes        |-> [c \in 1..Len(sheet.columns) |-> sheet.columns[c].type],
         expaAreaSizePerRow |-> calculatedExpaAreaSizePerRow(sheet.columns),
         rowCount           |-> Len(sheet.rows)]]

\* the loop "for (totalNulls = 2; totalNulls <= 5; totalNulls++)": the first
\* totalNulls from the given one with (dataEnd + totalNulls) % 4 = 0, and the
\* default of 2 when the loop runs out
RECURSIVE TotalNulls(_, _)
TotalNulls(dataEnd, totalNulls) ==
    IF totalNulls > 5 THEN 2
    ELSE IF (dataEnd + totalNulls) % 4 = 0 THEN totalNulls
    ELSE TotalNulls(dataEnd, totalNulls + 1)

\* a faulty variant of preliminaryNameLengthWithPadding: always two NUL bytes
PreliminaryNameLengthWithTwoNulls(currentOffset, sLen) == sLen + 2

\* lines 101-113: the dry run's name length, against the preliminary writer
preliminaryNameLengthWithPadding(currentOffset, sLen) ==
    sLen + TotalNulls(currentOffset + 4 + sLen, 2)

\* a faulty variant of finalSheetNameLengthWithPadding: always two NUL bytes
NameLengthWithTwoNulls(currentOffset, sLen) == sLen + 2

\* lines 139-151: the name length written, against the real writer
finalSheetNameLengthWithPadding(currentOffset, sLen) ==
    sLen + TotalNulls(currentOffset + 4 + sLen, 2)

\* a faulty variant of finalTextLengthWithPadding: the number of NUL bytes
\* alone, the length of the text left out
TextLengthNullsOnly(currentOffset, sLen) == TotalNulls(currentOffset + 8 + sLen, 2)

\* a faulty variant of finalTextLengthWithPadding: always two NUL bytes
TextLengthWithTwoNulls(currentOffset, sLen) == sLen + 2

\* lines 229-243: the pool text length written, against the real writer
finalTextLengthWithPadding(currentOffset, sLen) ==
    sLen + TotalNulls(currentOffset + 8 + sLen, 2)

\* encodedBytes followed by zero bytes up to length n (new Uint8Array(n), set(.., 0))
Padded(encodedBytes, n) ==
    [k \in 1..n |-> IF k <= Len(encodedBytes) THEN encodedBytes[k] ELSE 0]

\* lines 153-158 and 245-251: paddedBytes = new Uint8Array(n),
\* paddedBytes.set(encodedBytes, 0), then writeBytes(paddedBytes);
\* TypedArray.set throws a RangeError when encodedBytes is longer than n
writePadded(w, encodedBytes, n) ==
    IF Len(encodedBytes) > n THEN [w EXCEPT !.thrown = TRUE]
    ELSE writeBytes(w, Padded(encodedBytes, n))

\* a faulty variant of WriteColumnTypes: STRID is written with the tag of STR
RECURSIVE WriteColumnTypesStridAsStr(_, _)
WriteColumnTypesStridAsStr(w, types) ==
    IF types = <<>> THEN w
    ELSE LET w1 == writeUint32(w, IF Head(types) = STRID THEN STR ELSE Head(types))
         IN  Strict(w1, WriteColumnTypesStridAsStr(w1, Tail(types)))

\* lines 99-104 and 161-164: the column type tags of a sheet header
RECURSIVE WriteColumnTypes(_, _)
WriteColumnTypes(w, types) ==
    IF types = <<>> THEN w
    ELSE LET w1 == writeUint32(w, Head(types))
         IN  Strict(w1, WriteColumnTypes(w1, Tail(types)))

\* Sub-Phase 2.1, lines 99-123: the preliminary header writer
RECURSIVE PreliminaryHeaders(_, _, _)
PreliminaryHeaders(infos, i, w) ==
    IF i > Len(infos) THEN w
    ELSE
      LET info == infos[i]
          n  == preliminaryNameLengthWithPadding(w.currentOffset,
                                                 Len(info.encodedNameBytes))
          w1 == writeUint32(w, n)
          w2 == writeBytes(w1, Zeros(n))
          w3 == writeUint32(w2, Len(info.columnTypes))
          w4 == WriteColumnTypes(w3, info.columnTypes)
          w5 == writeUint32(w4, info.expaAreaSizePerRow)
          w6 == writeUint32(w5, info.rowCount)
      IN  Strict(w6, PreliminaryHeaders(infos, i + 1, w6))

\* a faulty variant of CollectRow: the empty strings are collected too
RECURSIVE CollectRowWithEmpty(_, _, _, _, _)
CollectRowWithEmpty(sheet, r, c, off, chnk) ==
    IF c > Len(sheet.columns) THEN chnk
    ELSE
      LET type      == sheet.columns[c].type
          cellValue == sheet.rows[r].cells[c]
          chnk1     == IF type \in {STR, STRID}
                       THEN Append(chnk,
                                [targetExpaAbsoluteFileOffset |-> off,
                                 encodedBytes |-> TextEncode(cellValue)])
                       ELSE chnk
      IN  Strict(chnk1, CollectRowWithEmpty(sheet, r, c + 1,
                                            off + ColumnWidth(type), chnk1))

\* lines 175-190: the cells of one row from column c, at absolute offset off
RECURSIVE CollectRow(_, _, _, _, _)
CollectRow(sheet, r, c, off, chnk) ==
    IF c > Len(sheet.columns) THEN chnk
    ELSE
      LET type      == sheet.columns[c].type
          cellValue == sheet.rows[r].cells[c]
          chnk1     == IF type \in {STR, STRID} /\ cellValue # <<>>
                       THEN Append(chnk,
                                [targetExpaAbsoluteFileOffset |-> off,
                                 encodedBytes |-> TextEncode(cellValue)])
                       ELSE chnk
      IN  Strict(chnk1, CollectRow(sheet, r, c + 1, off + ColumnWidth(type), chnk1))

\* lines 172-191
RECURSIVE CollectSheet(_, _, _, _, _)
CollectSheet(sheet, r, sheetExpaDataStart, expaAreaSizePerRow, chnk) ==
    IF r > Len(sheet.rows) THEN chnk
    ELSE LET chnk1 == CollectRow(sheet, r, 1,
                          sheetExpaDataStart + (r - 1) * expaAreaSizePerRow, chnk)
         IN  Strict(chnk1, CollectSheet(sheet, r + 1, sheetExpaDataStart,
                                        expaAreaSizePerRow, chnk1))

\* Sub-Phase 2.2, lines 134-193: st carries the writer, chnkRawStrings,
\* sheetExpaDataStartOffsets and runningExpaOffsetTracker; headerAt records
\* where the fields of each sheet header were written
RECURSIVE WriteHeaders(_, _, _, _)
WriteHeaders(file, infos, i, st) ==
    IF i > Len(infos) THEN st
    ELSE
      LET info == infos[i]
          w    == st.writer
          n    == finalSheetNameLengthWithPadding(w.currentOffset,
                                                  Len(info.encodedNameBytes))
          w1   == writeUint32(w, n)
          w2   == writePadded(w1, info.encodedNameBytes, n)
          w3   == writeUint32(w2, Len(info.columnTypes))
          w4   == WriteColumnTypes(w3, info.columnTypes)
          w5   == writeUint32(w4, info.expaAreaSizePerRow)
          w6   == writeUint32(w5, info.rowCount)
          sheetExpaDataStart == st.runningExpaOffsetTracker
          st1  ==
            [writer |-> w6,
             chnkRawStrings |->
                 CollectSheet(file.sheets[i], 1, sheetExpaDataStart,
                              info.expaAreaSizePerRow, st.chnkRawStrings),
             sheetExpaDataStartOffsets |->
                 Append(st.sheetExpaDataStartOffsets, sheetExpaDataStart),
             runningExpaOffsetTracker |->
                 st.runningExpaOffsetTracker
                     + info.expaAreaSizePerRow * info.rowCount,
             headerAt |->
                 Append(st.headerAt,
                    [nameLen     |-> w.currentOffset,
                     nameEnd     |-> w2.currentOffset,
                     columnCount |-> w2.currentOffset,
                     tags        |-> [c \in 1..Len(info.columnTypes) |->
                                         w3.currentOffset + 4 * (c - 1)],
                     expaAreaSizePerRow |-> w4.currentOffset,
                     rowCount    |-> w5.currentOffset])]
      IN  Strict(st1, WriteHeaders(file, infos, i + 1, st1))

\* lines 206-216: one row's cells
RECURSIVE WriteRow(_, _, _, _)
WriteRow(w, columns, cells, c) ==
    IF c > Len(columns) THEN w
    ELSE
      LET type == columns[c].type
          w1   == IF type = INT THEN writeInt32(w, cells[c])
                  ELSE IF type \in {STR, STRID}
                       THEN writeUint32(writeUint32(w, 0), 0)
                       ELSE w
      IN  Strict(w1, WriteRow(w1, columns, cells, c + 1))

RECURSIVE WriteRows(_, _, _)
WriteRows(w, sheet, r) ==
    IF r > Len(sheet.rows) THEN w
    ELSE LET w1 == WriteRow(w, sheet.columns, sheet.rows[r].cells, 1)
         IN  Strict(w1, WriteRows(w1, sheet, r + 1))

\* Phase 3, lines 202-218
RECURSIVE WriteExpaData(_, _, _)
WriteExpaData(w, file, i) ==
    IF i > Len(file.sheets) THEN w
    ELSE LET w1 == WriteRows(w, file.sheets[i], 1)
         IN  Strict(w1, WriteExpaData(w1, file, i + 1))

\* a faulty variant of SortChnk: the entries in their order reversed (the
\* comparator's operands exchanged)
SortChnkDescending(entries) ==
    [p \in 1..Len(entries) |-> entries[Len(entries) + 1 - p]]

\* line 225: chnkRawStrings.sort by targetExpaAbsoluteFileOffset; the sort is
\* stable, so entry k goes to the place counted by the entries that are below
\* it, or equal to it and earlier
SortChnk(entries) ==
    LET Before(j, k) ==
            \/ entries[j].targetExpaAbsoluteFileOffset
                   < entries[k].targetExpaAbsoluteFileOffset
            \/ /\ entries[j].targetExpaAbsoluteFileOffset
                   = entries[k].targetExpaAbsoluteFileOffset
               /\ j < k
        Place(k) == Cardinality({ j \in 1..Len(entries) : Before(j, k) }) + 1
    IN  [p \in 1..Len(entries) |->
            entries[CHOOSE k \in 1..Len(entries) : Place(k) = p]]

\* lines 227-252: the pool entries; entryAt records where each entry was written
RECURSIVE WriteChnkEntries(_, _, _)
WriteChnkEntries(st, entries, k) ==
    IF k > Len(entries) THEN st
    ELSE
      LET rawEntry == entries[k]
          w  == st.writer
          n  == finalTextLengthWithPadding(w.currentOffset, Len(rawEntry.encodedBytes))
          w1 == writeUint32(w, rawEntry.targetExpaAbsoluteFileOffset)
          w2 == writeUint32(w1, n)
          w3 == writePadded(w2, rawEntry.encodedBytes, n)
          st1 == [writer  |-> w3,
                  entryAt |-> Append(st.entryAt,
                                [target |-> rawEntry.targetExpaAbsoluteFileOffset,
                                 start  |-> w.currentOffset,
                                 end    |-> w3.currentOffset])]
      IN  Strict(st1, WriteChnkEntries(st1, entries, k + 1))

\* Phase 4, lines 221-253
WriteChnk(w, chnkRawStrings) ==
    IF Len(chnkRawStrings) > 0
    THEN LET w1 == writeBytes(w, CHNK_MAGIC_BYTES)
             w2 == writeUint32(w1, Len(chnkRawStrings))
         IN  WriteChnkEntries([writer |-> w2, entryAt |-> <<>>],
                              SortChnk(chnkRawStrings), 1)
    ELSE [writer |-> w, entryAt |-> <<>>]

\* generateMbeFile: kind is "ok" when the call returns and bytes is then the
\* buffer returned; the other fields are the function's own bookkeeping, kept
\* for the properties
generateMbeFile(file) ==
    LET infos == sheetStructureInfos(file)
        w0    == writeUint32(writeBytes(NewWriter, EXPA_MAGIC_BYTES), Len(file.sheets))
        pre   == PreliminaryHeaders(infos, 1,
                    writeUint32(writeBytes(NewWriter, EXPA_MAGIC_BYTES),
                                Len(file.sheets)))
        expaDataMasterStartOffset == pre.currentOffset
        hdr   == WriteHeaders(file, infos, 1,
                    [writer |-> w0,
                     chnkRawStrings |-> <<>>,
                     sheetExpaDataStartOffsets |-> <<>>,
                     runningExpaOffsetTracker |-> expaDataMasterStartOffset,
                     headerAt |-> <<>>])
        data  == WriteExpaData(hdr.writer, file, 1)
        pool  == WriteChnk(data, hdr.chnkRawStrings)
    IN  Strict(<<pre, hdr, data>>,
        [kind                       |-> IF pool.writer.thrown THEN "RangeError" ELSE "ok",
         bytes                      |-> pool.writer.bytes,
         u32At                      |-> pool.writer.u32At,
         expaDataMasterStartOffset  |-> expaDataMasterStartOffset,
         headerEnd                  |-> hdr.writer.currentOffset,
         headerAt                   |-> hdr.headerAt,
         sheetExpaDataStartOffsets  |-> hdr.sheetExpaDataStartOffsets,
         expaDataEnd                |-> data.currentOffset,
         chnkRawStrings             |-> SortChnk(hdr.chnkRawStrings),
         entryAt                    |-> pool.entryAt])

---------------------------------------------------------------------------
(* The input models.  A file is a sequence of at most MaxSheets sheets; a   *)
(* sheet takes its name and columns from Shapes and has at most MaxRows     *)
(* rows; the shapes of a file's sheets go through Shapes in steps of a      *)
(* fixed length, so that every ordered pair of shapes occurs in two         *)
(* consecutive sheets; the cell in sheet i, row r, column c takes the       *)
(* value numbered seed + i + r + c of its type, so that over the seeds      *)
(* every cell takes every value.                                            *)

MaxSheets == 2
MaxRows == 2

\* lines 96-100 of the parser: the label of a column type
TypeName(type) ==
    IF type = INT THEN "int" ELSE IF type = STR THEN "str" ELSE "strID"

Column(type) == [type |-> type, typeName |-> TypeName(type)]

\* name and column types: "" with no column, "x" (1 byte), "bb" (2 bytes),
\* "éa" (3 bytes), "a\0" (a NUL character in the name)
Shapes ==
    << <<<<>>, <<>>>>,
       <<<<120>>, <<INT>>>>,
       <<<<98, 98>>, <<STR>>>>,
       <<<<233, 97>>, <<INT, STRID>>>>,
       <<<<97, 0>>, <<STRID, STR>>>> >>

\* 0, 7, -1, 2^31 (outside the signed 32-bit range), -2^31
IntVals == <<Num(0, 0), Num(0, 7), Num(-1, 65535), Num(32768, 0), Num(-32768, 0)>>

\* "", "a", "é", "hi!", "a\0b"
StrVals == <<<<>>, <<97>>, <<233>>, <<104, 105, 33>>, <<97, 0, 98>>>>

Seeds == 0..(Len(IntVals) - 1)

CellOf(type, k) ==
    IF type = INT THEN IntVals[(k % Len(IntVals)) + 1]
    ELSE StrVals[(k % Len(StrVals)) + 1]

\* sheet i of a file: row ids as parseMbeFile makes them (line 199), and a
\* parsedExpaAreaSizePerRow that is the natural stride or 4 more
SheetOf(shape, rowCount, i, seed) ==
    LET types == shape[2] IN
    [name    |-> shape[1],
     columns |-> [c \in 1..Len(types) |-> Column(types[c])],
     rows    |-> [r \in 1..rowCount |->
                    [id    |-> <<"row", i - 1, r - 1, seed>>,
                     cells |-> [c \in 1..Len(types) |->
                                  CellOf(types[c], seed + i + r + c)]]],
     parsedExpaAreaSizePerRow |->
         calculatedExpaAreaSizePerRow([c \in 1..Len(types) |-> Column(types[c])])
             + 4 * (seed % 2)]

\* the layouts of at most MaxSheets sheets whose shapes go through Shapes in
\* steps of a length in steps: the shape and the row count of every sheet
LayoutsBy(steps) ==
    UNION { { [i \in 1..n |->
                 <<Shapes[((first + (i - 1) * step) % Len(Shapes)) + 1], rowCounts[i]>>] :
              first \in 0..(Len(Shapes) - 1), step \in steps,
              rowCounts \in [1..n -> 0..MaxRows] } :
            n \in 0..MaxSheets }

Layouts == LayoutsBy(0..(Len(Shapes) - 1))

FileOf(layout, seed) ==
    [sheets |-> [i \in 1..Len(layout) |->
                    SheetOf(layout[i][1], layout[i][2], i, seed)]]

Files == { FileOf(layout, seed) : layout \in Layouts, seed \in Seeds }

---------------------------------------------------------------------------
(* readString, findMagic and parseMbeFile (the parser module) *)

byteLength(view) == Len(view)

\* the bytes of view at offsets off .. off + n - 1
Slice(view, off, n) == [k \in 1..n |-> view[off + k]]

\* lines 19-27: the bytes before the first 0x00
RECURSIVE UpToNull(_, _)
UpToNull(bs, i) ==
    IF i > Len(bs) \/ bs[i] = 0 THEN SubSeq(bs, 1, i - 1) ELSE UpToNull(bs, i + 1)

Min(a, b) == IF a <= b THEN a ELSE b

\* a faulty variant of readString: the whole declared length is decoded, the
\* NUL padding included
readStringToLength(view, offset, length) ==
    IF length = 0 THEN <<>>
    ELSE IF offset < 0 \/ offset + length > byteLength(view) THEN <<>>
    ELSE TextDecode(Slice(view, offset, length))

\* a faulty variant of readString: one NUL byte is taken off the end of the
\* declared length and the rest is decoded
readStringLessOne(view, offset, length) ==
    IF length = 0 THEN <<>>
    ELSE IF offset < 0 \/ offset + length > byteLength(view) THEN <<>>
    ELSE TextDecode(Slice(view, offset, length - 1))

\* readString, lines 4-39, with the default encoding 'utf-8'
readString(view, offset, length) ==
    IF length = 0 THEN <<>>
    ELSE IF offset < 0 \/ offset + length > byteLength(view) THEN <<>>
    ELSE LET effectiveLength == Min(length, byteLength(view) - offset) IN
         IF effectiveLength <= 0 THEN <<>>
         ELSE TextDecode(UpToNull(Slice(view, offset, effectiveLength), 1))

\* a faulty variant of findMagic: i runs up to byteLength and only the bytes
\* that lie in the view are compared
findMagicClamped(view, magicBytes, startOffset) ==
    LET found == { i \in startOffset..byteLength(view) :
                     \A j \in 1..Min(Len(magicBytes), byteLength(view) - i) :
                         view[i + j] = magicBytes[j] }
    IN  IF found = {} THEN -1
        ELSE CHOOSE i \in found : \A h \in found : i <= h

\* findMagic, lines 41-55: the first i from startOffset up to
\* byteLength - magicBytes.length at which the magic bytes stand, or -1
findMagic(view, magicBytes, startOffset) ==
    LET found == { i \in startOffset..(byteLength(view) - Len(magicBytes)) :
                     \A j \in 1..Len(magicBytes) : view[i + j] = magicBytes[j] }
    IN  IF found = {} THEN -1
        ELSE CHOOSE i \in found : \A h \in found : i <= h

\* DataView.getUint8 / getUint32 throw a RangeError past the end of the view
InRange(view, off, n) == off >= 0 /\ off + n <= byteLength(view)

NoFile == [sheets |-> <<>>, none |-> TRUE]

\* a parse that threw: kind is "InvalidMagic" (line 64), "UnknownColumnType"
\* (line 100, message = <<typeVal, sheetName, j>>) or "RangeError" (thrown by
\* DataView); tagsRead are the column tags read up to there
Thrown(kind, message, tagsRead) ==
    [kind |-> kind, message |-> message, file |-> NoFile, tagsRead |-> tagsRead,
     sheetExpaDataStartOffsets |-> <<>>, chnkMagicOffset |-> -1,
     chnkLookupMap |-> <<>>]

\* lines 62-66: the magic bytes from index i
RECURSIVE MagicCheck(_, _)
MagicCheck(view, i) ==
    IF i >= Len(EXPA_MAGIC_BYTES) THEN "ok"
    ELSE IF ~InRange(view, i, 1) THEN "RangeError"
    ELSE IF view[i + 1] # EXPA_MAGIC_BYTES[i + 1] THEN "InvalidMagic"
    ELSE MagicCheck(view, i + 1)

\* lines 93-104: the column tags of one sheet from column j (0-based)
RECURSIVE ReadColumns(_, _, _, _, _, _, _)
ReadColumns(view, off, columnCount, j, columns, sheetName, tagsRead) ==
    IF j >= columnCount
    THEN [kind |-> "ok", columns |-> columns, off |-> off, tagsRead |-> tagsRead]
    ELSE IF ~InRange(view, off, 4) THEN Thrown("RangeError", <<>>, tagsRead)
    ELSE LET typeVal == getUint32(view, off)
             tags1   == Append(tagsRead,
                          [typeVal |-> typeVal, sheetName |-> sheetName, column |-> j])
         IN  IF typeVal \notin ColumnType
             THEN Thrown("UnknownColumnType", <<typeVal, sheetName, j>>, tags1)
             ELSE LET columns1 == Append(columns,
                                     [type |-> typeVal, typeName |-> TypeName(typeVal)])
                  IN  Strict(<<columns1, tags1>>,
                             ReadColumns(view, off + 4, columnCount, j + 1,
                                         columns1, sheetName, tags1))

\* Pass 1, lines 83-112: the sheet headers from sheet i (0-based)
RECURSIVE ReadHeaders(_, _, _, _, _, _)
ReadHeaders(view, sheetCount, i, currentGlobalOffset, sheetHeaderData, tagsRead) ==
    IF i >= sheetCount
    THEN [kind |-> "ok", sheetHeaderData |-> sheetHeaderData,
          off |-> currentGlobalOffset, tagsRead |-> tagsRead]
    ELSE IF ~InRange(view, currentGlobalOffset, 4)
    THEN Thrown("RangeError", <<>>, tagsRead)
    ELSE
      LET sheetNameLength == getUint32(view, currentGlobalOffset)
          sheetName == readString(view, currentGlobalOffset + 4, sheetNameLength)
          off1 == currentGlobalOffset + 4 + sheetNameLength
      IN
      IF ~InRange(view, off1, 4) THEN Thrown("RangeError", <<>>, tagsRead)
      ELSE
        LET columnCount == getUint32(view, off1)
            cols == ReadColumns(view, off1 + 4, columnCount, 0, <<>>, sheetName, tagsRead)
        IN
        IF cols.kind # "ok" THEN cols
        ELSE IF ~InRange(view, cols.off, 4)
        THEN Thrown("RangeError", <<>>, cols.tagsRead)
        ELSE IF ~InRange(view, cols.off + 4, 4)
        THEN Thrown("RangeError", <<>>, cols.tagsRead)
        ELSE LET data1 == Append(sheetHeaderData,
                             [name |-> sheetName,
                              columns |-> cols.columns,
                              expaAreaSizePerRow |-> getUint32(view, cols.off),
                              expaRowCount |-> getUint32(view, cols.off + 4)])
             IN  Strict(data1, ReadHeaders(view, sheetCount, i + 1, cols.off + 8,
                                           data1, cols.tagsRead))

\* a faulty variant of StartOffsets: a sheet is taken to hold one row
RECURSIVE StartOffsetsOneRow(_, _, _, _)
StartOffsetsOneRow(sheetHeaderData, i, runningExpaOffset, starts) ==
    IF i > Len(sheetHeaderData)
    THEN [starts |-> starts, chnkSearchStartOffset |-> runningExpaOffset]
    ELSE LET starts1 == Append(starts, runningExpaOffset)
         IN  Strict(starts1,
                StartOffsetsOneRow(sheetHeaderData, i + 1,
                    runningExpaOffset + sheetHeaderData[i].expaAreaSizePerRow,
                    starts1))

\* lines 117-121: sheetExpaDataStartOffset of every sheet, then the offset after
\* the last one
RECURSIVE StartOffsets(_, _, _, _)
StartOffsets(sheetHeaderData, i, runningExpaOffset, starts) ==
    IF i > Len(sheetHeaderData)
    THEN [starts |-> starts, chnkSearchStartOffset |-> runningExpaOffset]
    ELSE LET starts1 == Append(starts, runningExpaOffset)
         IN  Strict(starts1,
                StartOffsets(sheetHeaderData, i + 1,
                    runningExpaOffset + sheetHeaderData[i].expaAreaSizePerRow
                                            * sheetHeaderData[i].expaRowCount,
                    starts1))

\* chnkLookupMap is the sequence of its entries in insertion order; set replaces
\* the value of a key already there, get finds the entry of a key
MapHas(map, key) == \E k \in 1..Len(map) : map[k].key = key

MapSet(map, key, text) ==
    IF MapHas(map, key)
    THEN [k \in 1..Len(map) |->
             IF map[k].key = key THEN [key |-> key, text |-> text] ELSE map[k]]
    ELSE Append(map, [key |-> key, text |-> text])

MapGet(map, key) == map[CHOOSE k \in 1..Len(map) : map[k].key = key].text

\* a faulty variant of ReadChnkEntries: an entry whose text runs past the end
\* of the buffer is kept with the text that is there
RECURSIVE ReadChnkEntriesClipped(_, _, _, _, _)
ReadChnkEntriesClipped(view, numChnkEntries, i, chnkOffset, map) ==
    IF i >= numChnkEntries THEN map
    ELSE IF chnkOffset + 8 > byteLength(view) THEN map
    ELSE
      LET targetExpaCellAbsoluteFileOffset == getUint32(view, chnkOffset)
          textLengthIncludingNulls ==
              Min(getUint32(view, chnkOffset + 4), byteLength(view) - chnkOffset - 8)
          map1 == MapSet(map, targetExpaCellAbsoluteFileOffset,
                         readString(view, chnkOffset + 8, textLengthIncludingNulls))
      IN  Strict(map1, ReadChnkEntriesClipped(view, numChnkEntries, i + 1,
                          chnkOffset + 8 + textLengthIncludingNulls, map1))

\* a faulty variant of ReadChnkEntries: an entry whose text runs past the end
\* of the buffer empties the map
RECURSIVE ReadChnkEntriesReset(_, _, _, _, _)
ReadChnkEntriesReset(view, numChnkEntries, i, chnkOffset, map) ==
    IF i >= numChnkEntries THEN map
    ELSE IF chnkOffset + 8 > byteLength(view) THEN map
    ELSE
      LET targetExpaCellAbsoluteFileOffset == getUint32(view, chnkOffset)
          textLengthIncludingNulls == getUint32(view, chnkOffset + 4)
          textActualDataFileOffset == chnkOffset + 8
      IN
      IF textActualDataFileOffset + textLengthIncludingNulls > byteLength(view)
      THEN ReadChnkEntriesReset(view, numChnkEntries, i + 1,
              Min(chnkOffset + 8 + textLengthIncludingNulls, byteLength(view)), <<>>)
      ELSE LET map1 == MapSet(map, targetExpaCellAbsoluteFileOffset,
                              readString(view, textActualDataFileOffset,
                                         textLengthIncludingNulls))
           IN  Strict(map1, ReadChnkEntriesReset(view, numChnkEntries, i + 1,
                                chnkOffset + 8 + textLengthIncludingNulls, map1))

\* lines 136-155: the pool entries from entry i (0-based)
RECURSIVE ReadChnkEntries(_, _, _, _, _)
ReadChnkEntries(view, numChnkEntries, i, chnkOffset, map) ==
    IF i >= numChnkEntries THEN map
    ELSE IF chnkOffset + 8 > byteLength(view) THEN map
    ELSE
      LET targetExpaCellAbsoluteFileOffset == getUint32(view, chnkOffset)
          textLengthIncludingNulls == getUint32(view, chnkOffset + 4)
          textActualDataFileOffset == chnkOffset + 8
      IN
      IF textActualDataFileOffset + textLengthIncludingNulls > byteLength(view)
      THEN ReadChnkEntries(view, numChnkEntries, i + 1,
              Min(chnkOffset + 8 + textLengthIncludingNulls, byteLength(view)), map)
      ELSE LET map1 == MapSet(map, targetExpaCellAbsoluteFileOffset,
                              readString(view, textActualDataFileOffset,
                                         textLengthIncludingNulls))
           IN  Strict(map1, ReadChnkEntries(view, numChnkEntries, i + 1,
                                chnkOffset + 8 + textLengthIncludingNulls, map1))

\* a faulty variant of ReadCells: an INT cell that lies past the end of the
\* buffer is left out of the row
RECURSIVE ReadCellsSkipping(_, _, _, _, _, _)
ReadCellsSkipping(view, columns, c, off, map, cells) ==
    IF c > Len(columns) THEN cells
    ELSE
      LET type == columns[c].type IN
      IF type = INT
      THEN LET cells1 == IF off + 4 > byteLength(view) THEN cells
                         ELSE Append(cells, getInt32(view, off))
           IN  Strict(cells1, ReadCellsSkipping(view, columns, c + 1, off + 4, map, cells1))
      ELSE LET cells1 == Append(cells, IF MapHas(map, off) THEN MapGet(map, off)
                                       ELSE <<>>)
           IN  Strict(cells1, ReadCellsSkipping(view, columns, c + 1, off + 8, map, cells1))

\* lines 173-198: the cells of one row from column c, at offset off
RECURSIVE ReadCells(_, _, _, _, _, _)
ReadCells(view, columns, c, off, map, cells) ==
    IF c > Len(columns) THEN cells
    ELSE
      LET type == columns[c].type IN
      IF type = INT
      THEN LET cells1 == Append(cells, IF off + 4 > byteLength(view) THEN NumOf(0)
                                       ELSE getInt32(view, off))
           IN  Strict(cells1, ReadCells(view, columns, c + 1, off + 4, map, cells1))
      ELSE LET cells1 == Append(cells, IF MapHas(map, off) THEN MapGet(map, off)
                                       ELSE <<>>)
           IN  Strict(cells1, ReadCells(view, columns, c + 1, off + 8, map, cells1))

\* a faulty variant of ReadSheet: the rows are taken to follow each other
\* with no byte between them
ReadSheetTight(view, header, sheetExpaDataStartOffset, i, map, now) ==
    [name    |-> header.name,
     columns |-> header.columns,
     rows    |-> [r \in 1..header.expaRowCount |->
                    [id    |-> <<"row", i - 1, r - 1, now>>,
                     cells |-> ReadCells(view, header.columns, 1,
                                  sheetExpaDataStartOffset
                                      + (r - 1) * calculatedExpaAreaSizePerRow(header.columns),
                                  map, <<>>)]],
     parsedExpaAreaSizePerRow |-> header.expaAreaSizePerRow]

\* lines 160-207: sheet i (1-based here, i - 1 in the row ids)
ReadSheet(view, header, sheetExpaDataStartOffset, i, map, now) ==
    [name    |-> header.name,
     columns |-> header.columns,
     rows    |-> [r \in 1..header.expaRowCount |->
                    [id    |-> <<"row", i - 1, r - 1, now>>,
                     cells |-> ReadCells(view, header.columns, 1,
                                  sheetExpaDataStartOffset
                                      + (r - 1) * header.expaAreaSizePerRow,
                                  map, <<>>)]],
     parsedExpaAreaSizePerRow |-> header.expaAreaSizePerRow]

\* parseMbeFile; now is the value of Date.now() in the row ids
parseMbeFile(view, now) ==
    LET magic == MagicCheck(view, 0) IN
    IF magic # "ok" THEN Thrown(magic, <<>>, <<>>)
    ELSE IF ~InRange(view, 4, 4) THEN Thrown("RangeError", <<>>, <<>>)
    ELSE
      LET sheetCount == getUint32(view, 4)
          hdrs == ReadHeaders(view, sheetCount, 0, 8, <<>>, <<>>)
      IN
      IF hdrs.kind # "ok" THEN hdrs
      ELSE
        LET so == StartOffsets(hdrs.sheetHeaderData, 1, hdrs.off, <<>>)
            chnkMagicOffset == findMagic(view, CHNK_MAGIC_BYTES, so.chnkSearchStartOffset)
        IN
        IF chnkMagicOffset # -1 /\ ~InRange(view, chnkMagicOffset + 4, 4)
        THEN Thrown("RangeError", <<>>, hdrs.tagsRead)
        ELSE
          LET map == IF chnkMagicOffset = -1 THEN <<>>
                     ELSE ReadChnkEntries(view, getUint32(view, chnkMagicOffset + 4),
                                          0, chnkMagicOffset + 8, <<>>)
          IN
          Strict(map,
          [kind |-> "ok",
           message |-> <<>>,
           file |-> [sheets |-> [i \in 1..Len(hdrs.sheetHeaderData) |->
                        ReadSheet(view, hdrs.sheetHeaderData[i], so.starts[i],
                                  i, map, now)]],
           tagsRead |-> hdrs.tagsRead,
           sheetExpaDataStartOffsets |-> so.starts,
           chnkMagicOffset |-> chnkMagicOffset,
           chnkLookupMap |-> map])

---------------------------------------------------------------------------
(* The state machine: a model is encoded, once or twice, and the buffer is  *)
(* parsed.                                                                  *)

\* the values Date.now() takes in the row ids of a parse
Clock == {0, 1}

NoGen == [bytes |-> <<>>, none |-> TRUE]
NoDamage == [kind |-> "none", at |-> 0, value |-> 0]
NoResult == [kind |-> "none"]

Init ==
    /\ mbeFile \in Files
    /\ gen = NoGen
    /\ buffer = <<>>
    /\ damage = NoDamage
    /\ parsed = NoResult
    /\ resaved = NoGen
    /\ reparsed = NoResult
    /\ isLoading = FALSE
    /\ activeSheetIndex = 0
    /\ error = "none"
    /\ csvImport = NoCall
    /\ fileLoad = NoCall
    /\ pc = "model"

\* handleSaveFile: generateMbeFile(mbeFile); an exception is caught at line 97
\* and nothing is downloaded
Generate ==
    /\ pc = "model"
    /\ gen' = generateMbeFile(mbeFile)
    /\ buffer' = IF gen'.kind = "ok" THEN gen'.bytes ELSE <<>>
    /\ pc' = IF gen'.kind = "ok" THEN "generated" ELSE "failed"
    /\ UNCHANGED <<mbeFile, damage, parsed>>
    /\ UNCHANGED roundVars
    /\ UNCHANGED editorVars

\* handleSaveFile once more on the same model: buffer is what the second call
\* returns, gen stays what the first call computed
Save ==
    /\ pc = "generated"
    /\ LET again == generateMbeFile(mbeFile) IN
          /\ buffer' = IF again.kind = "ok" THEN again.bytes ELSE <<>>
          /\ pc' = IF again.kind = "ok" THEN "saved" ELSE "failed"
    /\ UNCHANGED <<mbeFile, gen, damage, parsed>>
    /\ UNCHANGED roundVars
    /\ UNCHANGED editorVars

\* handleFileChange: parseMbeFile(arrayBuffer)
Parse ==
    /\ pc \in {"generated", "damaged"}
    /\ \E now \in Clock : parsed' = parseMbeFile(buffer, now)
    /\ pc' = "parsed"
    /\ UNCHANGED <<mbeFile, gen, buffer, damage>>
    /\ UNCHANGED roundVars
    /\ UNCHANGED editorVars

Next == Generate \/ Save \/ Parse

Spec == Init /\ [][Next]_vars

---------------------------------------------------------------------------
(* Damaged buffers: the file that is loaded is a generated buffer cut short *)
(* or with one 32-bit field overwritten.                                    *)

\* the models whose buffers are damaged: one value pattern, and the shapes of
\* consecutive sheets consecutive in Shapes
ReadFiles == { FileOf(layout, 3) : layout \in LayoutsBy({1}) }

InitRead ==
    /\ mbeFile \in ReadFiles
    /\ gen = NoGen
    /\ buffer = <<>>
    /\ damage = NoDamage
    /\ parsed = NoResult
    /\ resaved = NoGen
    /\ reparsed = NoResult
    /\ isLoading = FALSE
    /\ activeSheetIndex = 0
    /\ error = "none"
    /\ csvImport = NoCall
    /\ fileLoad = NoCall
    /\ pc = "model"

\* the buffer keeps its first k bytes
Truncate ==
    /\ pc = "generated"
    /\ \E k \in 0..(Len(buffer) - 1) :
          /\ buffer' = SubSeq(buffer, 1, k)
          /\ damage' = [kind |-> "cut", at |-> k, value |-> 0]
    /\ pc' = "damaged"
    /\ UNCHANGED <<mbeFile, gen, parsed>>
    /\ UNCHANGED roundVars
    /\ UNCHANGED editorVars

\* the offsets of the magic and of every column tag
PokeSites(g) ==
    {0} \cup UNION { { g.headerAt[i].tags[c] : c \in 1..Len(g.headerAt[i].tags) } :
                       i \in 1..Len(g.headerAt) }

\* 0 and 3 are no column type, 7 is STR
PokeVals == {0, 3, 7}

\* the 32-bit field at offset at is overwritten with v
Poke ==
    /\ pc = "generated"
    /\ \E at \in PokeSites(gen), v \in PokeVals :
          /\ buffer' = [k \in 1..Len(buffer) |->
                          IF k > at /\ k <= at + 4 THEN Uint32Bytes(v)[k - at]
                          ELSE buffer[k]]
          /\ buffer' # buffer
          /\ damage' = [kind |-> "poke", at |-> at, value |-> v]
    /\ pc' = "damaged"
    /\ UNCHANGED <<mbeFile, gen, parsed>>
    /\ UNCHANGED roundVars
    /\ UNCHANGED editorVars

\* by how much the declared length of the final pool entry is raised
OverrunBy == {1, 4, 256}

\* the text length of the final pool entry is overwritten with a length that
\* runs past the end of the buffer
Overrun ==
    /\ pc = "generated"
    /\ Len(gen.entryAt) > 0
    /\ \E d \in OverrunBy :
          LET at == gen.entryAt[Len(gen.entryAt)].start + 4
              v  == getUint32(buffer, at) + d
          IN  /\ buffer' = [k \in 1..Len(buffer) |->
                              IF k > at /\ k <= at + 4 THEN Uint32Bytes(v)[k - at]
                              ELSE buffer[k]]
              /\ damage' = [kind |-> "overrun", at |-> at, value |-> v]
    /\ pc' = "damaged"
    /\ UNCHANGED <<mbeFile, gen, parsed>>
    /\ UNCHANGED roundVars
    /\ UNCHANGED editorVars

NextRead == Generate \/ Truncate \/ Poke \/ Overrun \/ Parse

SpecRead == InitRead /\ [][NextRead]_vars

---------------------------------------------------------------------------
(* The layout of a buffer, worked out from the model alone: the structural  *)
(* block holds the sheets' rows one after the other, an INT cell on 4       *)
(* bytes and a STR / STRID cell on 8.                                       *)

CellWidth(type) == IF type = 2 THEN 4 ELSE 8

\* the width of the first c cells of a row
RECURSIVE RowWidth(_, _)
RowWidth(columns, c) ==
    IF c = 0 THEN 0 ELSE RowWidth(columns, c - 1) + CellWidth(columns[c].type)

\* the width of the rows of the first i sheets
RECURSIVE BlockWidth(_, _)
BlockWidth(file, i) ==
    IF i = 0 THEN 0
    ELSE BlockWidth(file, i - 1)
            + Len(file.sheets[i].rows)
                * RowWidth(file.sheets[i].columns, Len(file.sheets[i].columns))

\* the offset of cell c of row r of sheet i when the structural block starts
\* at offset base
CellOffset(file, base, i, r, c) ==
    base + BlockWidth(file, i - 1)
         + (r - 1) * RowWidth(file.sheets[i].columns, Len(file.sheets[i].columns))
         + RowWidth(file.sheets[i].columns, c - 1)

\* the cells of a file: <<sheet, row, column>>
Cells(file) ==
    UNION { UNION { { <<i, r, c>> : c \in 1..Len(file.sheets[i].columns) } :
                      r \in 1..Len(file.sheets[i].rows) } :
              i \in 1..Len(file.sheets) }

IsString(file, cell) == file.sheets[cell[1]].columns[cell[3]].type \in {7, 8}

CellValue(file, cell) == file.sheets[cell[1]].rows[cell[2]].cells[cell[3]]

StartsWithExpa(b) == Len(b) >= 4 /\ SubSeq(b, 1, 4) = <<69, 88, 80, 65>>

---------------------------------------------------------------------------
(* C1: round trip *)

\* equal sheet by sheet: names, column lists, rows and cell values in order;
\* row ids and parsedExpaAreaSizePerRow are not compared
SameFile(a, b) ==
    /\ Len(a.sheets) = Len(b.sheets)
    /\ \A i \in 1..Len(a.sheets) :
          /\ a.sheets[i].name = b.sheets[i].name
          /\ a.sheets[i].columns = b.sheets[i].columns
          /\ Len(a.sheets[i].rows) = Len(b.sheets[i].rows)
          /\ \A r \in 1..Len(a.sheets[i].rows) :
                a.sheets[i].rows[r].cells = b.sheets[i].rows[r].cells

HasNul(str) == \E k \in 1..Len(str) : str[k] = 0

\* every INT cell is in the signed 32-bit range, and no sheet name and no
\* string cell holds the character U+0000
Representable(file) ==
    /\ \A i \in 1..Len(file.sheets) : ~HasNul(file.sheets[i].name)
    /\ \A cell \in Cells(file) :
          IF IsString(file, cell) THEN ~HasNul(CellValue(file, cell))
          ELSE CellValue(file, cell)[1] \in -32768..32767

\* C1 as stated: for every model whose rows hold one cell per column, integers
\* in the INT columns and strings in the STR / STRID columns, parsing the
\* generated buffer gives the model back sheet by sheet
C1_RoundTrip ==
    pc = "parsed" => parsed.kind = "ok" /\ SameFile(parsed.file, mbeFile)

\* C1, amended: parsing the generated buffer gives the model back sheet by
\* sheet when, moreover, the INT cells lie in [-2^31, 2^31 - 1] and the sheet
\* names and string cells hold no U+0000
C1_RoundTripRepresentable ==
    pc = "parsed" /\ Representable(mbeFile)
        => parsed.kind = "ok" /\ SameFile(parsed.file, mbeFile)

\* a two-sheet model with a negative INT cell, the string "é" and an empty
\* string has made the round trip
C1_Witness ==
    /\ pc = "parsed"
    /\ Representable(mbeFile)
    /\ Len(mbeFile.sheets) = 2
    /\ \E x, y, z \in Cells(mbeFile) :
          /\ ~IsString(mbeFile, x) /\ CellValue(mbeFile, x) = <<-1, 65535>>
          /\ IsString(mbeFile, y) /\ CellValue(mbeFile, y) = <<233>>
          /\ IsString(mbeFile, z) /\ CellValue(mbeFile, z) = <<>>

---------------------------------------------------------------------------
(* C2: alignment *)

\* the offsets of the 32-bit fields of the buffer g generated from file: the
\* sheet count, the header fields, the cells (both halves of a placeholder),
\* the pool's entry count and the two leading fields of every pool entry
U32Fields(file, g) ==
    {4}
    \cup UNION { {g.headerAt[i].nameLen, g.headerAt[i].columnCount,
                  g.headerAt[i].expaAreaSizePerRow, g.headerAt[i].rowCount}
                 \cup { g.headerAt[i].tags[c] : c \in 1..Len(g.headerAt[i].tags) } :
                 i \in 1..Len(g.headerAt) }
    \cup UNION { LET o == CellOffset(file, g.headerEnd, cell[1], cell[2], cell[3])
                 IN  IF IsString(file, cell) THEN {o, o + 4} ELSE {o} :
                 cell \in Cells(file) }
    \cup (IF Len(g.entryAt) > 0 THEN {g.expaDataEnd + 4} ELSE {})
    \cup UNION { {g.entryAt[k].start, g.entryAt[k].start + 4} :
                 k \in 1..Len(g.entryAt) }

\* C2: in every generated buffer, every 32-bit field lies in the buffer at an
\* offset that is a multiple of 4, and these fields are the 32-bit writes of
\* the generator
C2_Alignment ==
    pc = "generated" =>
        /\ U32Fields(mbeFile, gen) = gen.u32At
        /\ \A o \in U32Fields(mbeFile, gen) : o % 4 = 0 /\ o + 4 <= Len(gen.bytes)

\* a buffer of two sheets and at least two pool entries, one of them with a
\* text of 3 bytes (padded with 5 NUL bytes or with 3), has been generated
C2_Witness ==
    /\ pc = "generated"
    /\ Len(mbeFile.sheets) = 2
    /\ Len(gen.entryAt) >= 2
    /\ \E k \in 1..Len(gen.chnkRawStrings) : Len(gen.chnkRawStrings[k].encodedBytes) = 3

---------------------------------------------------------------------------
(* C3 and C4: the pool entries of a generated buffer *)

\* the target offset written in pool entry k of the generated buffer
TargetOf(g, k) == getUint32(g.bytes, g.entryAt[k].start)

\* C3: in every generated buffer the target offsets of consecutive pool
\* entries are strictly increasing
C3_OffsetOrdering ==
    pc = "generated" =>
        \A k \in 1..(Len(gen.entryAt) - 1) : TargetOf(gen, k) < TargetOf(gen, k + 1)

\* a pool of at least three entries, from two sheets, has been generated
C3_Witness ==
    /\ pc = "generated"
    /\ Len(mbeFile.sheets) = 2
    /\ Len(gen.entryAt) >= 3
    /\ \E i \in 1..2 : \E cell \in Cells(mbeFile) :
          cell[1] = i /\ IsString(mbeFile, cell) /\ CellValue(mbeFile, cell) # <<>>

\* C4: in every generated buffer the target offset O of every pool entry lies
\* in the structural block, is the offset of a STR / STRID cell, and the 8
\* bytes at O are zero
C4_BackReference ==
    pc = "generated" =>
        \A k \in 1..Len(gen.entryAt) :
            LET O == TargetOf(gen, k) IN
            /\ gen.headerEnd <= O
            /\ O + 8 <= gen.expaDataEnd
            /\ gen.expaDataEnd <= Len(gen.bytes)
            /\ \E cell \in Cells(mbeFile) :
                  /\ IsString(mbeFile, cell)
                  /\ CellOffset(mbeFile, gen.headerEnd, cell[1], cell[2], cell[3]) = O
            /\ \A j \in 1..8 : gen.bytes[O + j] = 0

\* a buffer has been generated whose pool has an entry for a string cell that
\* follows an INT cell in the second row of the second sheet
C4_Witness ==
    /\ pc = "generated"
    /\ \E k \in 1..Len(gen.entryAt) : \E cell \in Cells(mbeFile) :
          /\ cell[1] = 2 /\ cell[2] = 2 /\ cell[3] = 2
          /\ IsString(mbeFile, cell)
          /\ ~IsString(mbeFile, <<2, 2, 1>>)
          /\ CellOffset(mbeFile, gen.headerEnd, 2, 2, 2) = TargetOf(gen, k)

---------------------------------------------------------------------------
(* C7 and C8: what the generated bytes depend on *)

RowIds == {<<"new-row", 5>>, <<"csv-row", 7, 0>>}

\* file with every row id replaced by id and every parsedExpaAreaSizePerRow
\* by hint
Retagged(file, id, hint) ==
    [sheets |-> [i \in 1..Len(file.sheets) |->
        [file.sheets[i] EXCEPT
            !.rows = [r \in 1..Len(file.sheets[i].rows) |->
                         [file.sheets[i].rows[r] EXCEPT !.id = id]],
            !.parsedExpaAreaSizePerRow = hint]]]

\* C8: a model that differs from the generated one only in its row ids and in
\* its parsedExpaAreaSizePerRow fields generates the same bytes, and the
\* stride in every sheet header is 4 per INT column plus 8 per STR / STRID
\* column
C8_AdvisoryFieldsIgnored ==
    pc = "generated" =>
        /\ \A id \in RowIds, hint \in {0, 12} :
              generateMbeFile(Retagged(mbeFile, id, hint)).bytes = gen.bytes
        /\ \A i \in 1..Len(mbeFile.sheets) :
              getUint32(gen.bytes, gen.headerAt[i].expaAreaSizePerRow)
                  = RowWidth(mbeFile.sheets[i].columns, Len(mbeFile.sheets[i].columns))

\* a buffer has been generated from a model with rows whose
\* parsedExpaAreaSizePerRow is not the natural stride
C8_Witness ==
    /\ pc = "generated"
    /\ \E i \in 1..Len(mbeFile.sheets) :
          /\ Len(mbeFile.sheets[i].rows) = 2
          /\ Len(mbeFile.sheets[i].columns) = 2
          /\ mbeFile.sheets[i].parsedExpaAreaSizePerRow
                # RowWidth(mbeFile.sheets[i].columns, 2)

---------------------------------------------------------------------------
(* C5, C6, C9 and C10: parseMbeFile on damaged buffers *)

\* the buffer was cut at or after the end of the sheet headers, and not
\* between the end of the CHNK magic and the end of the pool's entry count
CutAfterHeaders ==
    /\ damage.kind = "cut"
    /\ damage.at >= gen.headerEnd
    /\ ~(Len(gen.entryAt) > 0 /\ damage.at >= gen.expaDataEnd + 4
                              /\ damage.at < gen.expaDataEnd + 8)

\* what cell is to be decoded to when the buffer keeps its first cut bytes:
\* an INT cell that lies within them keeps the value intact decodes it to,
\* and so does a string cell whose pool entry lies within them; any other
\* INT cell is 0 and any other string cell is ""
CellAfterCut(cell, cut, intact) ==
    LET o == CellOffset(mbeFile, gen.headerEnd, cell[1], cell[2], cell[3]) IN
    IF IsString(mbeFile, cell)
    THEN IF \E k \in 1..Len(gen.entryAt) :
                gen.entryAt[k].target = o /\ gen.entryAt[k].end <= cut
         THEN CellValue(intact, cell) ELSE <<>>
    ELSE IF o + 4 <= cut THEN CellValue(intact, cell) ELSE <<0, 0>>

\* C5: when the buffer is cut in a pool entry, in the rows or before the
\* pool, parseMbeFile returns a file with the sheets, columns and row counts
\* of the headers, in which every cell that lost its bytes or its pool entry
\* is 0 or "" and every other cell is what the whole buffer decodes to
C5_Tolerance ==
    pc = "parsed" /\ CutAfterHeaders =>
        LET intact == parseMbeFile(gen.bytes, 0).file IN
        /\ parsed.kind = "ok"
        /\ Len(parsed.file.sheets) = Len(mbeFile.sheets)
        /\ \A i \in 1..Len(mbeFile.sheets) :
              /\ parsed.file.sheets[i].name = intact.sheets[i].name
              /\ parsed.file.sheets[i].columns = mbeFile.sheets[i].columns
              /\ Len(parsed.file.sheets[i].rows) = Len(mbeFile.sheets[i].rows)
              /\ \A r \in 1..Len(mbeFile.sheets[i].rows) :
                    Len(parsed.file.sheets[i].rows[r].cells)
                        = Len(mbeFile.sheets[i].columns)
        /\ \A cell \in Cells(mbeFile) :
              CellValue(parsed.file, cell) = CellAfterCut(cell, damage.at, intact)

\* a buffer cut inside the text of its second pool entry has been parsed: the
\* first entry's cell kept its string and the second entry's cell is ""
C5_Witness ==
    /\ pc = "parsed"
    /\ CutAfterHeaders
    /\ Len(gen.entryAt) >= 2
    /\ damage.at > gen.entryAt[2].start + 8
    /\ damage.at < gen.entryAt[2].end
    /\ \E x, y \in Cells(mbeFile) :
          /\ CellOffset(mbeFile, gen.headerEnd, x[1], x[2], x[3]) = gen.entryAt[1].target
          /\ CellValue(parsed.file, x) # <<>>
          /\ CellOffset(mbeFile, gen.headerEnd, y[1], y[2], y[3]) = gen.entryAt[2].target
          /\ CellValue(parsed.file, y) = <<>>

\* C6 as stated: parsing a buffer that starts with "EXPA" never ends in the
\* exception of a read past the end of the buffer
C6_ReadsBoundsChecked ==
    pc = "parsed" /\ StartsWithExpa(buffer) => parsed.kind # "RangeError"

\* C9 as stated: parseMbeFile ends in InvalidMagic exactly when the buffer
\* does not start with the 4 bytes "EXPA", shorter buffers included
C9_InvalidMagic ==
    pc = "parsed" => (parsed.kind = "InvalidMagic" <=> ~StartsWithExpa(buffer))

\* the column tags that lie in the buffer: <<sheet, column>>
TagsIn(b) ==
    UNION { { <<i, c>> : c \in { c \in 1..Len(gen.headerAt[i].tags) :
                                   gen.headerAt[i].tags[c] + 4 <= Len(b) } } :
              i \in 1..Len(gen.headerAt) }

TagIn(b, t) == getUint32(b, gen.headerAt[t[1]].tags[t[2]])

\* the name of sheet i as its header in the buffer gives it
SheetNameIn(b, i) ==
    readString(b, gen.headerAt[i].nameLen + 4, getUint32(b, gen.headerAt[i].nameLen))

\* C10: parseMbeFile ends in UnknownColumnType exactly when a column tag of
\* the buffer's sheet headers is not 2, 7 or 8; the error then reports that
\* tag's value, its sheet's name and its column index, and no file is returned
C10_UnknownColumnType ==
    pc = "parsed" /\ StartsWithExpa(buffer) =>
        LET bad == { t \in TagsIn(buffer) : TagIn(buffer, t) \notin {2, 7, 8} } IN
        /\ parsed.kind = "UnknownColumnType" <=> bad # {}
        /\ bad # {} =>
              /\ \E t \in bad :
                    parsed.message = <<TagIn(buffer, t), SheetNameIn(buffer, t[1]), t[2] - 1>>
              /\ parsed.file = NoFile

\* a buffer whose second sheet's second column tag was overwritten with 3 has
\* been parsed, and the parse ended in UnknownColumnType
C10_Witness ==
    /\ pc = "parsed"
    /\ damage.kind = "poke"
    /\ damage.value = 3
    /\ Len(gen.headerAt) = 2
    /\ Len(gen.headerAt[2].tags) = 2
    /\ damage.at = gen.headerAt[2].tags[2]
    /\ parsed.kind = "UnknownColumnType"
    /\ parsed.message[1] = 3
    /\ parsed.message[3] = 1

---------------------------------------------------------------------------
(* C11: generateMbeFile is total *)

IsByte(b) == b \in 0..255

\* C11: for every model, generateMbeFile can be called, returns without an
\* exception, and what it returns is a buffer of bytes that starts with the
\* magic and the sheet count
C11_GenerateTotal ==
    /\ pc = "model" => generateMbeFile(mbeFile).kind = "ok"
    /\ pc # "failed"
    /\ pc = "generated" =>
          /\ gen.kind = "ok"
          /\ buffer = gen.bytes
          /\ \A k \in 1..Len(buffer) : IsByte(buffer[k])
          /\ StartsWithExpa(buffer)
          /\ Len(buffer) >= 8
          /\ getUint32(buffer, 4) = Len(mbeFile.sheets)

\* a buffer has been generated from a model with an unnamed sheet of two rows
\* and no column, and a sheet with the INT cell 2^31 and an empty string
C11_Witness ==
    /\ pc = "generated"
    /\ Len(mbeFile.sheets) = 2
    /\ \E i \in 1..2 :
          /\ mbeFile.sheets[i].name = <<>>
          /\ mbeFile.sheets[i].columns = <<>>
          /\ Len(mbeFile.sheets[i].rows) = 2
    /\ \E x, y \in Cells(mbeFile) :
          /\ ~IsString(mbeFile, x) /\ CellValue(mbeFile, x) = <<32768, 0>>
          /\ IsString(mbeFile, y) /\ CellValue(mbeFile, y) = <<>>

---------------------------------------------------------------------------
(* C12: the contents of the pool *)

\* the STR / STRID cells whose value is not the empty string
NonEmptyStrings(file) ==
    { cell \in Cells(file) : IsString(file, cell) /\ CellValue(file, cell) # <<>> }

\* C12: the bytes after the structural block are nothing when no string cell
\* is non-empty, and otherwise "CHNK", the number of non-empty string cells,
\* and that many entries one after the other, whose targets are the offsets
\* of the non-empty string cells and whose texts are the cells' UTF-8 bytes
C12_PoolContents ==
    pc = "generated" =>
        LET cells == NonEmptyStrings(mbeFile)
            OffsetOf(cell) == CellOffset(mbeFile, gen.headerEnd, cell[1], cell[2], cell[3])
            n == Len(gen.entryAt)
        IN
        IF cells = {}
        THEN n = 0 /\ Len(gen.bytes) = gen.expaDataEnd
        ELSE
          /\ Len(gen.bytes) >= gen.expaDataEnd + 8
          /\ SubSeq(gen.bytes, gen.expaDataEnd + 1, gen.expaDataEnd + 4) = <<67, 72, 78, 75>>
          /\ getUint32(gen.bytes, gen.expaDataEnd + 4) = Cardinality(cells)
          /\ n = Cardinality(cells)
          /\ gen.entryAt[1].start = gen.expaDataEnd + 8
          /\ gen.entryAt[n].end = Len(gen.bytes)
          /\ \A k \in 1..n :
                /\ gen.entryAt[k].end
                      = gen.entryAt[k].start + 8 + getUint32(gen.bytes, gen.entryAt[k].start + 4)
                /\ k < n => gen.entryAt[k + 1].start = gen.entryAt[k].end
          /\ { TargetOf(gen, k) : k \in 1..n } = { OffsetOf(cell) : cell \in cells }
          /\ \A k \in 1..n : \A cell \in cells :
                OffsetOf(cell) = TargetOf(gen, k) =>
                    LET text == TextEncode(CellValue(mbeFile, cell)) IN
                    /\ Len(text) <= getUint32(gen.bytes, gen.entryAt[k].start + 4)
                    /\ SubSeq(gen.bytes, gen.entryAt[k].start + 9,
                              gen.entryAt[k].start + 8 + Len(text)) = text

\* a buffer has been generated from a two-sheet model that has an empty
\* string cell, an INT cell and at least two non-empty string cells
C12_Witness ==
    /\ pc = "generated"
    /\ Len(mbeFile.sheets) = 2
    /\ Cardinality(NonEmptyStrings(mbeFile)) >= 2
    /\ \E x, y \in Cells(mbeFile) :
          /\ IsString(mbeFile, x) /\ CellValue(mbeFile, x) = <<>>
          /\ ~IsString(mbeFile, y)

---------------------------------------------------------------------------
(* C13: the padding of sheet names and pool texts *)

\* a field of stored length `stored`, whose data starts at offset `data` of
\* buffer b, holds the raw bytes `raw` and then N zero bytes, where N is the
\* smallest of 2..5 that makes the offset after the data a multiple of 4
PaddedField(b, data, stored, raw) ==
    LET L == Len(raw)
        N == stored - L
    IN  /\ N \in 2..5
        /\ (data + L + N) % 4 = 0
        /\ \A M \in 2..(N - 1) : (data + L + M) % 4 # 0
        /\ data + stored <= Len(b)
        /\ SubSeq(b, data + 1, data + L) = raw
        /\ \A k \in (data + L + 1)..(data + stored) : b[k] = 0

\* the number of NUL bytes after the name of sheet i in the generated buffer
NameNulls(i) ==
    getUint32(gen.bytes, gen.headerAt[i].nameLen) - Len(TextEncode(mbeFile.sheets[i].name))

\* C13: in every generated buffer every sheet name and every pool text is
\* stored with a length of L + N, N the smallest of 2..5 that aligns the
\* offset after the data to 4, and ends in N zero bytes
C13_PaddingRule ==
    pc = "generated" =>
        /\ \A i \in 1..Len(mbeFile.sheets) :
              PaddedField(gen.bytes, gen.headerAt[i].nameLen + 4,
                          getUint32(gen.bytes, gen.headerAt[i].nameLen),
                          TextEncode(mbeFile.sheets[i].name))
        /\ \A k \in 1..Len(gen.entryAt) :
              /\ \E cell \in NonEmptyStrings(mbeFile) :
                    CellOffset(mbeFile, gen.headerEnd, cell[1], cell[2], cell[3])
                        = TargetOf(gen, k)
              /\ \A cell \in NonEmptyStrings(mbeFile) :
                    CellOffset(mbeFile, gen.headerEnd, cell[1], cell[2], cell[3])
                        = TargetOf(gen, k)
                    => PaddedField(gen.bytes, gen.entryAt[k].start + 8,
                                   getUint32(gen.bytes, gen.entryAt[k].start + 4),
                                   TextEncode(CellValue(mbeFile, cell)))

\* a buffer has been generated in which one sheet name is followed by 5 NUL
\* bytes and another by 2, 3 or 4, and the pool has a text of 3 bytes
\* (5 NUL bytes) and a text of 1 byte (3 NUL bytes)
C13_Witness ==
    /\ pc = "generated"
    /\ Len(mbeFile.sheets) = 2
    /\ \E i, j \in 1..2 : NameNulls(i) = 5 /\ NameNulls(j) \in 2..4
    /\ \E k, l \in 1..Len(gen.entryAt) :
          /\ getUint32(gen.bytes, gen.entryAt[k].start + 4) = 8
          /\ getUint32(gen.bytes, gen.entryAt[l].start + 4) = 4

---------------------------------------------------------------------------
(* C14: a final pool entry that runs past the end of the buffer *)

\* the header of the final pool entry lies in the buffer and the text length
\* it declares runs past the end of the buffer; the bytes before it are the
\* generated ones
FinalEntryOverruns ==
    /\ damage.kind \in {"cut", "overrun"}
    /\ Len(gen.entryAt) > 0
    /\ LET last == gen.entryAt[Len(gen.entryAt)] IN
          /\ last.start + 8 <= Len(buffer)
          /\ last.start + 8 + getUint32(buffer, last.start + 4) > Len(buffer)

\* C14: when the final pool entry declares a text that runs past the end of
\* the buffer, parseMbeFile returns a file, the map holds every entry before
\* it with its text and not the final one, the cell of the final entry is ""
\* and every other cell is what the undamaged buffer decodes to
C14_CorruptPoolTolerance ==
    pc = "parsed" /\ FinalEntryOverruns =>
        LET n      == Len(gen.entryAt)
            intact == parseMbeFile(gen.bytes, 0).file
            OffsetOf(cell) == CellOffset(mbeFile, gen.headerEnd, cell[1], cell[2], cell[3])
        IN
        /\ parsed.kind = "ok"
        /\ Len(parsed.chnkLookupMap) = n - 1
        /\ ~MapHas(parsed.chnkLookupMap, TargetOf(gen, n))
        /\ \A k \in 1..(n - 1) :
              /\ MapHas(parsed.chnkLookupMap, TargetOf(gen, k))
              /\ MapGet(parsed.chnkLookupMap, TargetOf(gen, k))
                    = readString(gen.bytes, gen.entryAt[k].start + 8,
                                 getUint32(gen.bytes, gen.entryAt[k].start + 4))
        /\ SameFile(parsed.file,
                    [sheets |-> [i \in 1..Len(intact.sheets) |->
                        [intact.sheets[i] EXCEPT !.rows = parsed.file.sheets[i].rows]]])
        /\ \A cell \in Cells(mbeFile) :
              CellValue(parsed.file, cell)
                  = IF IsString(mbeFile, cell) /\ OffsetOf(cell) = TargetOf(gen, n)
                    THEN <<>> ELSE CellValue(intact, cell)
        /\ \A cell \in NonEmptyStrings(mbeFile) :
              OffsetOf(cell) # TargetOf(gen, n) /\ ~HasNul(CellValue(mbeFile, cell))
                  => CellValue(parsed.file, cell) = CellValue(mbeFile, cell)

\* a buffer whose third and final pool entry had its text length raised past
\* the end of the buffer has been parsed: the cells of the two entries
\* before it hold their strings and the cell of the final entry is ""
C14_Witness ==
    /\ pc = "parsed"
    /\ damage.kind = "overrun"
    /\ FinalEntryOverruns
    /\ Len(gen.entryAt) >= 3
    /\ \E x, y, z \in Cells(mbeFile) :
          /\ CellOffset(mbeFile, gen.headerEnd, x[1], x[2], x[3]) = TargetOf(gen, 1)
          /\ CellOffset(mbeFile, gen.headerEnd, y[1], y[2], y[3]) = TargetOf(gen, 2)
          /\ CellOffset(mbeFile, gen.headerEnd, z[1], z[2], z[3]) = TargetOf(gen, Len(gen.entryAt))
          /\ CellValue(parsed.file, x) # <<>>
          /\ CellValue(parsed.file, y) # <<>>
          /\ CellValue(mbeFile, z) # <<>>
          /\ CellValue(parsed.file, z) = <<>>

---------------------------------------------------------------------------
(* Models of sheets with one INT column, whose cells take integers inside   *)
(* and outside the signed 32-bit range: one sheet of 1..MaxRows rows, or    *)
(* 2..MaxSheets sheets of one row whose names go through IntNames.          *)

\* "a", "bb", "x"
IntNames == <<<<97>>, <<98, 98>>, <<120>>>>

\* 1, -1, 2^31 - 1, 2^31, 2^32 + 7, -2^31 - 1
WideInts ==
    { Num(0, 1), Num(-1, 65535), Num(32767, 65535), Num(32768, 0), Num(65536, 7),
      Num(-32769, 65535) }

IntSheet(name, values, i) ==
    [name    |-> name,
     columns |-> <<Column(INT)>>,
     rows    |-> [r \in 1..Len(values) |->
                    [id |-> <<"row", i - 1, r - 1, 0>>, cells |-> <<values[r]>>]],
     parsedExpaAreaSizePerRow |-> 4]

IntFiles ==
    { [sheets |-> <<IntSheet(IntNames[k], values, 1)>>] :
          k \in 1..Len(IntNames),
          values \in UNION { [1..n -> WideInts] : n \in 1..MaxRows } }
    \cup UNION { { [sheets |-> [i \in 1..n |->
                      IntSheet(IntNames[((first + i - 1) % Len(IntNames)) + 1],
                               <<values[i]>>, i)]] :
                   first \in 0..(Len(IntNames) - 1), values \in [1..n -> WideInts] } :
                 n \in 2..MaxSheets }

InitAll ==
    /\ mbeFile \in Files \cup IntFiles
    /\ gen = NoGen
    /\ buffer = <<>>
    /\ damage = NoDamage
    /\ parsed = NoResult
    /\ resaved = NoGen
    /\ reparsed = NoResult
    /\ isLoading = FALSE
    /\ activeSheetIndex = 0
    /\ error = "none"
    /\ csvImport = NoCall
    /\ fileLoad = NoCall
    /\ pc = "model"

SpecAll == InitAll /\ [][Next]_vars

---------------------------------------------------------------------------
(* C15: the structural blocks of the sheets *)

\* the stride and the row count written in the header of sheet j
StrideIn(g, j) == getUint32(g.bytes, g.headerAt[j].expaAreaSizePerRow)
RowCountIn(g, j) == getUint32(g.bytes, g.headerAt[j].rowCount)

\* the offset after the header of the last sheet
HeadersEnd(g) ==
    IF Len(g.headerAt) = 0 THEN 8 ELSE g.headerAt[Len(g.headerAt)].rowCount + 4

\* H + the sum over j < i of expaAreaSizePerRow[j] * rowCount[j]
RECURSIVE BlockStart(_, _)
BlockStart(g, i) ==
    IF i = 1 THEN HeadersEnd(g)
    ELSE BlockStart(g, i - 1) + StrideIn(g, i - 1) * RowCountIn(g, i - 1)

\* two sheets "a" and "bb" of one INT column and one row
IsS5(file) ==
    /\ Len(file.sheets) = 2
    /\ file.sheets[1].name = <<97>>
    /\ file.sheets[2].name = <<98, 98>>
    /\ \A i \in 1..2 : /\ file.sheets[i].columns = <<Column(INT)>>
                       /\ Len(file.sheets[i].rows) = 1

\* C15: in a generated buffer the rows of sheet i lie from
\* H + sum over j < i of stride[j] * rowCount[j], H the offset after the last
\* header, one sheet after the other up to the pool or the end of the
\* buffer; parseMbeFile takes the same start offsets and returns the sheets
\* in their order; for the sheets "a" and "bb" of one INT column and one
\* row the blocks are at H and H + 4 and there is no pool
C15_Packing ==
    pc = "parsed" =>
        LET n == Len(mbeFile.sheets) IN
        /\ parsed.kind = "ok"
        /\ Len(gen.headerAt) = n
        /\ \A i \in 1..n :
              /\ StrideIn(gen, i)
                    = RowWidth(mbeFile.sheets[i].columns, Len(mbeFile.sheets[i].columns))
              /\ RowCountIn(gen, i) = Len(mbeFile.sheets[i].rows)
              /\ gen.sheetExpaDataStartOffsets[i] = BlockStart(gen, i)
              /\ parsed.sheetExpaDataStartOffsets[i] = BlockStart(gen, i)
        /\ BlockStart(gen, n + 1) = gen.expaDataEnd
        /\ \/ Len(gen.bytes) = gen.expaDataEnd
           \/ /\ Len(gen.bytes) >= gen.expaDataEnd + 4
              /\ SubSeq(gen.bytes, gen.expaDataEnd + 1, gen.expaDataEnd + 4)
                    = <<67, 72, 78, 75>>
        /\ \A cell \in Cells(mbeFile) :
              LET o == BlockStart(gen, cell[1])
                         + (cell[2] - 1) * StrideIn(gen, cell[1])
                         + RowWidth(mbeFile.sheets[cell[1]].columns, cell[3] - 1)
              IN  IF IsString(mbeFile, cell)
                  THEN SubSeq(gen.bytes, o + 1, o + 8) = <<0, 0, 0, 0, 0, 0, 0, 0>>
                  ELSE SubSeq(gen.bytes, o + 1, o + 4) = Int32Bytes(CellValue(mbeFile, cell))
        /\ Len(parsed.file.sheets) = n
        /\ \A i \in 1..n :
              /\ parsed.file.sheets[i].columns = mbeFile.sheets[i].columns
              /\ Len(parsed.file.sheets[i].rows) = Len(mbeFile.sheets[i].rows)
              /\ ~HasNul(mbeFile.sheets[i].name)
                    => parsed.file.sheets[i].name = mbeFile.sheets[i].name
        /\ IsS5(mbeFile) =>
              /\ BlockStart(gen, 1) = HeadersEnd(gen)
              /\ BlockStart(gen, 2) = HeadersEnd(gen) + 4
              /\ Len(gen.bytes) = HeadersEnd(gen) + 8
              /\ findMagic(gen.bytes, CHNK_MAGIC_BYTES, 0) = -1
              /\ parsed.chnkMagicOffset = -1
              /\ parsed.file.sheets[1].name = <<97>>
              /\ parsed.file.sheets[2].name = <<98, 98>>

\* the buffer generated from the sheets "a" and "bb" of one INT column and
\* one row has been parsed
C15_Witness == pc = "parsed" /\ IsS5(mbeFile)

\* the buffer generated from two sheets of two rows, of strides 12 and 16,
\* has been parsed
C15_WitnessStrides ==
    /\ pc = "parsed"
    /\ Len(mbeFile.sheets) = 2
    /\ StrideIn(gen, 1) = 12 /\ RowCountIn(gen, 1) = 2
    /\ StrideIn(gen, 2) = 16 /\ RowCountIn(gen, 2) = 2

---------------------------------------------------------------------------
(* C16: the column type tags *)

\* the label of a wire tag
LabelOf(tag) == CASE tag = 2 -> "int" [] tag = 7 -> "str" [] tag = 8 -> "strID"

\* C16: parsing a generated buffer gives every column the wire tag (2, 7 or
\* 8) of the model's column, which is the tag written in the buffer, and
\* the typeName that is the label of that tag
C16_TagsRoundTrip ==
    pc = "parsed" =>
        /\ parsed.kind = "ok"
        /\ Len(parsed.file.sheets) = Len(mbeFile.sheets)
        /\ \A i \in 1..Len(mbeFile.sheets) :
              /\ Len(parsed.file.sheets[i].columns) = Len(mbeFile.sheets[i].columns)
              /\ \A c \in 1..Len(mbeFile.sheets[i].columns) :
                    LET tag == mbeFile.sheets[i].columns[c].type IN
                    /\ tag \in {2, 7, 8}
                    /\ getUint32(buffer, gen.headerAt[i].tags[c]) = tag
                    /\ parsed.file.sheets[i].columns[c].type = tag
                    /\ parsed.file.sheets[i].columns[c].typeName = LabelOf(tag)

\* a buffer generated from two sheets with the column types STRID, STR and
\* INT, STRID (in either order) has been parsed
C16_Witness ==
    /\ pc = "parsed"
    /\ Len(mbeFile.sheets) = 2
    /\ \E i, j \in 1..2 :
          /\ Len(mbeFile.sheets[i].columns) = 2
          /\ mbeFile.sheets[i].columns[1].type = 8
          /\ mbeFile.sheets[i].columns[2].type = 7
          /\ parsed.file.sheets[i].columns[1].typeName = "strID"
          /\ Len(mbeFile.sheets[j].columns) = 2
          /\ mbeFile.sheets[j].columns[1].type = 2
          /\ parsed.file.sheets[j].columns[2].type = 8

---------------------------------------------------------------------------
(* C17: one sheet "x", one INT column, rows [[1], [-1]] *)

IsS2(file) ==
    /\ Len(file.sheets) = 1
    /\ file.sheets[1].name = <<120>>
    /\ file.sheets[1].columns = <<Column(INT)>>
    /\ Len(file.sheets[1].rows) = 2
    /\ file.sheets[1].rows[1].cells = <<Num(0, 1)>>
    /\ file.sheets[1].rows[2].cells = <<Num(-1, 65535)>>

\* "EXPA" 01000000 04000000 "x" 000000 01000000 02000000 04000000 02000000,
\* then 01000000 FFFFFFFF
S2Bytes ==
    <<69, 88, 80, 65,  1, 0, 0, 0,  4, 0, 0, 0,  120, 0, 0, 0,
      1, 0, 0, 0,  2, 0, 0, 0,  4, 0, 0, 0,  2, 0, 0, 0,
      1, 0, 0, 0,  255, 255, 255, 255>>

\* C17: the buffer generated from the sheet "x" of one INT column and the
\* rows [[1], [-1]] is these 40 bytes, with no "CHNK", and parsing it gives
\* the rows [[1], [-1]]
C17_SingleIntColumn ==
    IsS2(mbeFile) =>
        /\ pc \in {"generated", "saved", "parsed"} =>
              /\ Len(buffer) = 40
              /\ buffer = S2Bytes
              /\ findMagic(buffer, CHNK_MAGIC_BYTES, 0) = -1
        /\ pc = "parsed" =>
              /\ parsed.kind = "ok"
              /\ parsed.chnkMagicOffset = -1
              /\ Len(parsed.file.sheets) = 1
              /\ parsed.file.sheets[1].name = <<120>>
              /\ parsed.file.sheets[1].columns = <<Column(INT)>>
              /\ Len(parsed.file.sheets[1].rows) = 2
              /\ parsed.file.sheets[1].rows[1].cells = <<Num(0, 1)>>
              /\ parsed.file.sheets[1].rows[2].cells = <<Num(-1, 65535)>>

\* the buffer generated from that sheet has been parsed
C17_Witness == pc = "parsed" /\ IsS2(mbeFile) /\ Len(buffer) = 40

---------------------------------------------------------------------------
(* C18: the model with no sheet *)

\* C18: the buffer generated from a model with no sheet is the 8 bytes
\* "EXPA" 00 00 00 00, and parsing it returns a file with no sheet
C18_EmptyFile ==
    mbeFile.sheets = <<>> =>
        /\ pc \in {"generated", "saved", "parsed"} =>
              buffer = <<69, 88, 80, 65, 0, 0, 0, 0>>
        /\ pc = "parsed" =>
              /\ parsed.kind = "ok"
              /\ parsed.file # NoFile
              /\ parsed.file.sheets = <<>>
              /\ parsed.chnkMagicOffset = -1

\* the 8 bytes generated from the model with no sheet have been parsed
C18_Witness ==
    /\ pc = "parsed"
    /\ mbeFile.sheets = <<>>
    /\ Len(buffer) = 8
    /\ parsed.file.sheets = <<>>

---------------------------------------------------------------------------
(* C19: the dry run of the headers *)

\* the condition of the warning at lines 198-200
OffsetMismatch(g) == g.headerEnd # g.expaDataMasterStartOffset

\* C19: the offset the preliminary writer ends at is the offset of the real
\* writer after the last sheet header, so the mismatch warning is not
\* reached, and every pool target computed from it is the offset at which
\* the cell it was computed for lies in the buffer
C19_DryRunAgrees ==
    pc = "generated" =>
        /\ ~OffsetMismatch(gen)
        /\ gen.expaDataMasterStartOffset = HeadersEnd(gen)
        /\ \A i \in 1..Len(mbeFile.sheets) :
              gen.sheetExpaDataStartOffsets[i] = BlockStart(gen, i)
        /\ Len(gen.chnkRawStrings) = Cardinality(NonEmptyStrings(mbeFile))
        /\ \A cell \in NonEmptyStrings(mbeFile) :
              LET o == CellOffset(mbeFile, HeadersEnd(gen), cell[1], cell[2], cell[3]) IN
              /\ \E k \in 1..Len(gen.chnkRawStrings) :
                    /\ gen.chnkRawStrings[k].targetExpaAbsoluteFileOffset = o
                    /\ gen.chnkRawStrings[k].encodedBytes
                          = TextEncode(CellValue(mbeFile, cell))
              /\ o + 8 <= gen.expaDataEnd
              /\ SubSeq(gen.bytes, o + 1, o + 8) = <<0, 0, 0, 0, 0, 0, 0, 0>>

\* a buffer has been generated from two sheets whose names take 5 and 3 or 4
\* NUL bytes of padding, with a non-empty string cell in the second sheet
C19_Witness ==
    /\ pc = "generated"
    /\ Len(mbeFile.sheets) = 2
    /\ \E i, j \in 1..2 : NameNulls(i) = 5 /\ NameNulls(j) \in 3..4
    /\ \E cell \in NonEmptyStrings(mbeFile) : cell[1] = 2

---------------------------------------------------------------------------
(* C20: INT cells outside the signed 32-bit range *)

\* the number in [-2^31, 2^31 - 1] congruent to v modulo 2^32
Wrapped(v) == Num(((v[1] + 32768) % 65536) - 32768, v[2])

\* the four little-endian bytes of v mod 2^32
LowBytes(v) ==
    LET hi == v[1] % 65536 IN <<v[2] % 256, v[2] \div 256, hi % 256, hi \div 256>>

InInt32(v) == v[1] \in -32768..32767

\* C20: for every INT cell of value v the generated buffer holds the four
\* little-endian bytes of v mod 2^32 at the cell's offset, and parsing it
\* gives the number in [-2^31, 2^31 - 1] congruent to v modulo 2^32, which
\* is v when v is in that range
C20_IntWraps ==
    pc = "parsed" =>
        /\ parsed.kind = "ok"
        /\ \A cell \in Cells(mbeFile) :
              ~IsString(mbeFile, cell) =>
                  LET v == CellValue(mbeFile, cell)
                      o == CellOffset(mbeFile, HeadersEnd(gen), cell[1], cell[2], cell[3])
                  IN  /\ SubSeq(buffer, o + 1, o + 4) = LowBytes(v)
                      /\ CellValue(parsed.file, cell) = Wrapped(v)
                      /\ InInt32(CellValue(parsed.file, cell))
                      /\ InInt32(v) => CellValue(parsed.file, cell) = v

\* a buffer generated from the INT cells 2^32 + 7 and -2^31 - 1 has been
\* parsed: they are read back as 7 and 2^31 - 1
C20_Witness ==
    /\ pc = "parsed"
    /\ Len(mbeFile.sheets) = 1
    /\ Len(mbeFile.sheets[1].rows) = 2
    /\ \E a, b \in 1..2 :
          /\ mbeFile.sheets[1].rows[a].cells = <<Num(65536, 7)>>
          /\ parsed.file.sheets[1].rows[a].cells = <<Num(0, 7)>>
          /\ mbeFile.sheets[1].rows[b].cells = <<Num(-32769, 65535)>>
          /\ parsed.file.sheets[1].rows[b].cells = <<Num(32767, 65535)>>

---------------------------------------------------------------------------
(* Buffers written by another writer of the format: the same sheets, rows   *)
(* and strings as the model, with a row stride of the natural sum plus      *)
(* `extra` bytes (each row followed by `extra` bytes 0xEE), and with        *)
(* every name and pool text followed by `nulls` NUL bytes (by the           *)
(* aligning number of NUL bytes when nulls = 0).                            *)

RECURSIVE TagBytes(_)
TagBytes(columns) ==
    IF columns = <<>> THEN <<>>
    ELSE Uint32Bytes(Head(columns).type) \o TagBytes(Tail(columns))

\* the number of NUL bytes after raw bytes that start at offset dataStart
ForeignNulls(nulls, dataStart, raw) ==
    IF nulls = 0 THEN TotalNulls(dataStart + Len(raw), 2) ELSE nulls

\* the sheet headers from sheet i, appended to acc
RECURSIVE ForeignHeaders(_, _, _, _, _)
ForeignHeaders(file, i, nulls, extra, acc) ==
    IF i > Len(file.sheets) THEN acc
    ELSE
      LET sheet == file.sheets[i]
          raw   == TextEncode(sheet.name)
          n     == ForeignNulls(nulls, Len(acc) + 4, raw)
          acc1  == acc \o Uint32Bytes(Len(raw) + n) \o raw \o Zeros(n)
                       \o Uint32Bytes(Len(sheet.columns)) \o TagBytes(sheet.columns)
                       \o Uint32Bytes(calculatedExpaAreaSizePerRow(sheet.columns) + extra)
                       \o Uint32Bytes(Len(sheet.rows))
      IN  Strict(acc1, ForeignHeaders(file, i + 1, nulls, extra, acc1))

RECURSIVE ForeignCells(_, _, _)
ForeignCells(columns, cells, c) ==
    IF c > Len(columns) THEN <<>>
    ELSE (IF columns[c].type = INT THEN Int32Bytes(cells[c]) ELSE Zeros(8))
         \o ForeignCells(columns, cells, c + 1)

\* the rows from row r of sheet i, appended to acc
RECURSIVE ForeignRows(_, _, _, _, _)
ForeignRows(file, i, r, extra, acc) ==
    IF i > Len(file.sheets) THEN acc
    ELSE IF r > Len(file.sheets[i].rows) THEN ForeignRows(file, i + 1, 1, extra, acc)
    ELSE LET acc1 == acc \o ForeignCells(file.sheets[i].columns,
                                         file.sheets[i].rows[r].cells, 1)
                         \o [k \in 1..extra |-> 238]
         IN  Strict(acc1, ForeignRows(file, i, r + 1, extra, acc1))

\* the number of rows of the sheets before sheet i
RECURSIVE RowsBefore(_, _)
RowsBefore(file, i) ==
    IF i = 1 THEN 0 ELSE RowsBefore(file, i - 1) + Len(file.sheets[i - 1].rows)

\* the offset of cell <<i, r, c>> when the rows start at base and every row
\* is followed by extra bytes
ForeignCellOffset(file, base, extra, cell) ==
    LET columns == file.sheets[cell[1]].columns IN
    base + BlockWidth(file, cell[1] - 1)
         + (cell[2] - 1) * RowWidth(columns, Len(columns))
         + RowWidth(columns, cell[3] - 1)
         + extra * (RowsBefore(file, cell[1]) + cell[2] - 1)

\* the non-empty string cells in the order of their offsets
CellsInOrder(file) ==
    LET cells == { cell \in Cells(file) :
                     IsString(file, cell) /\ CellValue(file, cell) # <<>> }
        Rank(cell) == Cardinality({ d \in cells : CellOffset(file, 0, d[1], d[2], d[3])
                                       < CellOffset(file, 0, cell[1], cell[2], cell[3]) })
    IN  [k \in 1..Cardinality(cells) |-> CHOOSE cell \in cells : Rank(cell) = k - 1]

\* the pool entries from entry k, appended to acc
RECURSIVE ForeignEntries(_, _, _, _, _, _, _)
ForeignEntries(file, order, k, base, nulls, extra, acc) ==
    IF k > Len(order) THEN acc
    ELSE
      LET raw  == TextEncode(CellValue(file, order[k]))
          n    == ForeignNulls(nulls, Len(acc) + 8, raw)
          acc1 == acc \o Uint32Bytes(ForeignCellOffset(file, base, extra, order[k]))
                      \o Uint32Bytes(Len(raw) + n) \o raw \o Zeros(n)
      IN  Strict(acc1, ForeignEntries(file, order, k + 1, base, nulls, extra, acc1))

ForeignBuffer(file, nulls, extra) ==
    LET headers == ForeignHeaders(file, 1, nulls, extra,
                       EXPA_MAGIC_BYTES \o Uint32Bytes(Len(file.sheets)))
        rows    == ForeignRows(file, 1, 1, extra, headers)
        order   == CellsInOrder(file)
    IN  IF order = <<>> THEN rows
        ELSE ForeignEntries(file, order, 1, Len(headers), nulls, extra,
                            rows \o CHNK_MAGIC_BYTES \o Uint32Bytes(Len(order)))

\* the surplus of the stride and the NUL bytes of the other writer
ForeignExtras == {0, 4, 8}
ForeignPads == {0, 1, 2, 6}

\* the buffer is one another writer made of the model; with no surplus and
\* the aligning padding it is the generated buffer
Foreign ==
    /\ pc = "generated"
    /\ \E nulls \in ForeignPads, extra \in ForeignExtras :
          /\ nulls # 0 \/ extra # 0
          /\ buffer' = ForeignBuffer(mbeFile, nulls, extra)
          /\ damage' = [kind |-> "foreign", at |-> nulls, value |-> extra]
    /\ pc' = "damaged"
    /\ UNCHANGED <<mbeFile, gen, parsed>>
    /\ UNCHANGED roundVars
    /\ UNCHANGED editorVars

\* handleSaveFile after handleFileChange: the file that was parsed is encoded
Resave ==
    /\ pc = "parsed"
    /\ parsed.kind = "ok"
    /\ resaved' = generateMbeFile(parsed.file)
    /\ pc' = "resaved"
    /\ UNCHANGED <<mbeFile, gen, buffer, damage, parsed, reparsed>>
    /\ UNCHANGED editorVars

\* handleFileChange on the bytes that were saved
Reparse ==
    /\ pc = "resaved"
    /\ resaved.kind = "ok"
    /\ \E now \in Clock : reparsed' = parseMbeFile(resaved.bytes, now)
    /\ pc' = "reparsed"
    /\ UNCHANGED <<mbeFile, gen, buffer, damage, parsed, resaved>>
    /\ UNCHANGED editorVars

NextCanon == Generate \/ Foreign \/ Parse \/ Resave \/ Reparse

SpecCanon == InitRead /\ [][NextCanon]_vars

\* with no surplus and the aligning padding the other writer writes what
\* generateMbeFile writes
ForeignAgrees == pc = "generated" => ForeignBuffer(mbeFile, 0, 0) = gen.bytes

---------------------------------------------------------------------------
(* C21: a row stride larger than the natural sum *)

\* the stride declared for sheet i in the buffer that was parsed
DeclaredStride(i) ==
    RowWidth(mbeFile.sheets[i].columns, Len(mbeFile.sheets[i].columns))
        + (IF damage.kind = "foreign" THEN damage.value ELSE 0)

\* C21: when the buffer declares a stride of the natural sum or more,
\* parseMbeFile reads the cells of row r from
\* sheetExpaDataStartOffset + r * expaAreaSizePerRow, and so reads what it
\* reads from the buffer with tight rows; the buffer generated from the
\* parsed file declares the natural sum; and parsing that buffer gives the
\* sheets, columns and cell values of the first parse
C21_StrideCanonical ==
    /\ pc \in {"parsed", "resaved", "reparsed"} =>
          LET intact == parseMbeFile(gen.bytes, 0).file IN
          /\ parsed.kind = "ok"
          /\ SameFile(parsed.file, intact)
          /\ \A i \in 1..Len(mbeFile.sheets) :
                parsed.file.sheets[i].parsedExpaAreaSizePerRow = DeclaredStride(i)
          /\ \A cell \in Cells(mbeFile) :
                LET o == parsed.sheetExpaDataStartOffsets[cell[1]]
                           + (cell[2] - 1) * DeclaredStride(cell[1])
                           + RowWidth(mbeFile.sheets[cell[1]].columns, cell[3] - 1)
                IN  CellValue(parsed.file, cell)
                      = IF IsString(mbeFile, cell)
                        THEN IF MapHas(parsed.chnkLookupMap, o)
                             THEN MapGet(parsed.chnkLookupMap, o) ELSE <<>>
                        ELSE getInt32(buffer, o)
    /\ pc \in {"resaved", "reparsed"} =>
          /\ resaved.kind = "ok"
          /\ \A i \in 1..Len(mbeFile.sheets) :
                StrideIn(resaved, i)
                    = RowWidth(mbeFile.sheets[i].columns, Len(mbeFile.sheets[i].columns))
    /\ pc = "reparsed" =>
          /\ reparsed.kind = "ok"
          /\ SameFile(reparsed.file, parsed.file)

\* a buffer of two sheets of two rows, whose rows are followed by 8 more
\* bytes and which has an INT cell and a pool entry in the second row of the
\* second sheet, has been parsed, encoded again and parsed again
C21_Witness ==
    /\ pc = "reparsed"
    /\ damage.kind = "foreign"
    /\ damage.value = 8
    /\ Len(mbeFile.sheets) = 2
    /\ Len(mbeFile.sheets[1].rows) = 2
    /\ Len(mbeFile.sheets[2].rows) = 2
    /\ Len(mbeFile.sheets[2].columns) = 2
    /\ ~IsString(mbeFile, <<2, 2, 1>>)
    /\ CellValue(reparsed.file, <<2, 2, 2>>) # <<>>
    /\ parsed.file.sheets[2].parsedExpaAreaSizePerRow = 20
    /\ reparsed.file.sheets[2].parsedExpaAreaSizePerRow = 12

---------------------------------------------------------------------------
(* C22: the generated bytes as a canonical form *)

\* no sheet name and no string cell holds the character U+0000
NoNulText(file) ==
    /\ \A i \in 1..Len(file.sheets) : ~HasNul(file.sheets[i].name)
    /\ \A cell \in Cells(file) :
          IsString(file, cell) => ~HasNul(CellValue(file, cell))

\* C22 as stated: for every model, the buffer generated from the parse of
\* the generated buffer is the generated buffer
C22_Canonical ==
    pc \in {"resaved", "reparsed"} /\ damage.kind = "none" =>
        resaved.kind = "ok" /\ resaved.bytes = gen.bytes

\* C22, amended: for every model whose names and strings hold no U+0000, the
\* buffer generated from the parse of the generated buffer is the generated
\* buffer; and for every model, the buffers that hold its content with
\* another padding (or another stride) are encoded again to the bytes the
\* generated buffer is encoded again to
C22_CanonicalNoNul ==
    pc \in {"resaved", "reparsed"} =>
        /\ resaved.kind = "ok"
        /\ resaved.bytes = generateMbeFile(parseMbeFile(gen.bytes, 0).file).bytes
        /\ NoNulText(mbeFile) => resaved.bytes = gen.bytes

\* a buffer of two sheets and at least two pool entries, written with 6 NUL
\* bytes after every name and text, from a model with no U+0000, has been
\* parsed and encoded again
C22_Witness ==
    /\ pc = "resaved"
    /\ damage.kind = "foreign"
    /\ damage.at = 6
    /\ damage.value = 0
    /\ buffer # gen.bytes
    /\ NoNulText(mbeFile)
    /\ Len(mbeFile.sheets) = 2
    /\ Len(gen.entryAt) >= 2
    /\ resaved.bytes = gen.bytes

---------------------------------------------------------------------------
(* C23: the files parseMbeFile returns *)

\* the pool entries that lie whole in buffer b: <<target, text>>
EntriesIn(b) ==
    { <<getUint32(b, gen.entryAt[k].start),
        readString(b, gen.entryAt[k].start + 8, getUint32(b, gen.entryAt[k].start + 4))>> :
      k \in { k \in 1..Len(gen.entryAt) :
                /\ b # <<>>
                /\ gen.expaDataEnd + 8 <= Len(b)
                /\ gen.entryAt[k].start + 8 <= Len(b)
                /\ gen.entryAt[k].start + 8 + getUint32(b, gen.entryAt[k].start + 4)
                      <= Len(b) } }

\* C23: every file parseMbeFile returns, from a whole, cut or overwritten
\* buffer, has for every sheet the number of rows its header declares, in
\* every row one cell per column, in every INT column integers of
\* [-2^31, 2^31 - 1], and in every STR / STRID column the text of the pool
\* entry whose target is the cell's offset, or "" when there is none
C23_ParsedInvariants ==
    pc = "parsed" /\ parsed.kind = "ok" =>
        /\ parsed.file # NoFile
        /\ Len(parsed.file.sheets) = getUint32(buffer, 4)
        /\ \A i \in 1..Len(parsed.file.sheets) :
              LET sheet  == parsed.file.sheets[i]
                  stride == getUint32(buffer, gen.headerAt[i].expaAreaSizePerRow)
              IN
              /\ Len(sheet.rows) = getUint32(buffer, gen.headerAt[i].rowCount)
              /\ \A r \in 1..Len(sheet.rows) :
                    /\ Len(sheet.rows[r].cells) = Len(sheet.columns)
                    /\ \A c \in 1..Len(sheet.columns) :
                          LET cell == sheet.rows[r].cells[c]
                              o    == parsed.sheetExpaDataStartOffsets[i]
                                        + (r - 1) * stride + RowWidth(sheet.columns, c - 1)
                          IN  IF sheet.columns[c].type = INT
                              THEN /\ Len(cell) = 2
                                   /\ cell[1] \in -32768..32767
                                   /\ cell[2] \in 0..65535
                              ELSE /\ sheet.columns[c].type \in {STR, STRID}
                                   /\ \/ <<o, cell>> \in EntriesIn(buffer)
                                      \/ /\ cell = <<>>
                                         /\ \A e \in EntriesIn(buffer) : e[1] # o

\* a buffer whose INT column tag was overwritten with the tag of STR, in a
\* sheet of two columns and two rows, has been parsed: the file has two
\* string cells in each row of that sheet
C23_WitnessPoke ==
    /\ pc = "parsed"
    /\ parsed.kind = "ok"
    /\ damage.kind = "poke"
    /\ \E i \in 1..Len(parsed.file.sheets) :
          /\ Len(parsed.file.sheets[i].rows) = 2
          /\ Len(mbeFile.sheets[i].columns) = 2
          /\ mbeFile.sheets[i].columns[1].type = INT
          /\ parsed.file.sheets[i].columns[1].type = STR

\* a buffer cut in the rows of its second sheet, before an INT cell and
\* before its pool, has been parsed: the file has every row and cell
C23_Witness ==
    /\ pc = "parsed"
    /\ parsed.kind = "ok"
    /\ damage.kind = "cut"
    /\ Len(mbeFile.sheets) = 2
    /\ Len(gen.entryAt) >= 2
    /\ damage.at > gen.sheetExpaDataStartOffsets[2]
    /\ damage.at < gen.expaDataEnd
    /\ \E cell \in Cells(mbeFile) :
          /\ cell[1] = 2
          /\ ~IsString(mbeFile, cell)
          /\ CellOffset(mbeFile, gen.headerEnd, cell[1], cell[2], cell[3]) >= damage.at
          /\ CellValue(parsed.file, cell) = <<0, 0>>

\* ------------------------------------------------------------------------
\* The editor: the values of JavaScript that its conversions go through.
\* A number that is an integer is the pair Num(hi, lo); the numbers that are
\* not integers are triples.  A string is its sequence of code units.

NaN == <<0, 0, 0>>

PosInfinity == <<1, 0, 0>>

NegInfinity == <<-1, 0, 0>>

\* stands for an integer of MaxExactDigits + 1 to MaxFiniteDigits digits (the
\* double nearest to it), which the model does not compute
FiniteBig == <<2, 0, 0>>

\* isNaN(v) of a number
isNaN(v) == v = NaN

\* Number.isInteger(v) of a number
IsIntegerNumber(v) == Len(v) = 2 \/ v = FiniteBig

\* the longest run of digits whose value the model computes exactly
MaxExactDigits == 14

\* a run of more significant digits than this is beyond the largest double
\* (1.797...e308 has 309 digits) and converts to Infinity
MaxFiniteDigits == 309

\* the white space that parseInt and String.prototype.trim skip
IsWhiteSpace(c) == c \in {9, 10, 11, 12, 13, 32, 160, 65279}

IsDigit(c) == c \in 48..57

\* the least member of a non-empty set of positions
Least(S) == CHOOSE k \in S : \A j \in S : k <= j

\* how many characters of white space s starts with, and ends with
LeadingSpaces(s) ==
    Cardinality({k \in 1..Len(s) : \A j \in 1..k : IsWhiteSpace(s[j])})

TrailingSpaces(s) ==
    Cardinality({k \in 1..Len(s) : \A j \in k..Len(s) : IsWhiteSpace(s[j])})

\* the value of the digits text[k..last], at most MaxExactDigits of them,
\* added to the value hi * 65536 + lo read so far
RECURSIVE DigitsValue(_, _, _, _, _)
DigitsValue(text, k, last, hi, lo) ==
    IF k > last THEN Num(hi, lo)
    ELSE LET low == lo * 10 + (text[k] - 48) IN
         DigitsValue(text, k + 1, last, hi * 10 + (low \div 65536), low % 65536)

\* -n of an integer n
Negate(n) ==
    IF n[2] = 0 THEN Num(-n[1], 0) ELSE Num(-n[1] - 1, 65536 - n[2])

\* parseInt(text, 10): white space is skipped, then a sign, then the longest
\* run of digits is read and the rest ignored; no digit gives NaN, and a
\* value beyond the doubles gives an infinity
ParseInt(text) ==
    LET start  == LeadingSpaces(text) + 1
        signed == start <= Len(text) /\ text[start] \in {43, 45}
        neg    == signed /\ text[start] = 45
        d0     == IF signed THEN start + 1 ELSE start
        stops  == {k \in d0..Len(text) : ~IsDigit(text[k])}
        e      == IF stops = {} THEN Len(text) + 1 ELSE Least(stops)
        nonZero == {k \in d0..(e - 1) : text[k] # 48}
        s0     == IF nonZero = {} THEN e ELSE Least(nonZero)
        sig    == e - s0
    IN  IF e = d0 THEN NaN
        ELSE IF sig > MaxFiniteDigits
             THEN (IF neg THEN NegInfinity ELSE PosInfinity)
        ELSE IF sig > MaxExactDigits THEN FiniteBig
        ELSE LET m == DigitsValue(text, s0, e - 1, 0, 0) IN
             IF neg THEN Negate(m) ELSE m

\* the decimal digits of an integer n >= 0, by long division of hi and lo
RECURSIVE DigitsOf(_)
DigitsOf(n) ==
    LET low  == (n[1] % 10) * 65536 + n[2]
        q    == Num(n[1] \div 10, low \div 10)
        last == <<48 + (low % 10)>>
    IN  IF q = Num(0, 0) THEN last ELSE DigitsOf(q) \o last

\* String(v) of a number v
NumberToString(v) ==
    IF v = NaN THEN <<78, 97, 78>>
    ELSE IF v = PosInfinity THEN <<73, 110, 102, 105, 110, 105, 116, 121>>
    ELSE IF v = NegInfinity THEN <<45, 73, 110, 102, 105, 110, 105, 116, 121>>
    ELSE IF v = FiniteBig THEN [k \in 1..(MaxExactDigits + 1) |-> 57]
    ELSE IF v[1] < 0 THEN <<45>> \o DigitsOf(Negate(v))
    ELSE DigitsOf(v)

\* a value handed to a handler is a number or a string
JsNumber(v) == [type |-> "number", v |-> v]

JsString(s) == [type |-> "string", v |-> s]

\* String(value), which is also how parseInt reads its first argument
StringOf(value) ==
    IF value.type = "number" THEN NumberToString(value.v) ELSE value.v

\* String.prototype.trim
Trim(s) ==
    LET first == LeadingSpaces(s) + 1
        last  == Len(s) - TrailingSpaces(s)
    IN  IF first > last THEN <<>>
        ELSE [k \in 1..(last - first + 1) |-> s[first + k - 1]]

\* the loop of parseCsvContent from position i (lines 16-40) and the last
\* value and row (lines 42-45).  The last branch (line 38) takes the
\* character and those after it up to the next quote, comma or line end in
\* one step: each of them would take that branch.
RECURSIVE CsvScan(_, _, _, _, _, _)
CsvScan(csvText, i, rows, currentRow, currentValue, inQuotes) ==
    LET pending == Len(currentValue) > 0 \/ Len(currentRow) > 0
        closed  == Append(rows, Append(currentRow, Trim(currentValue)))
    IN
    IF i > Len(csvText)
    THEN (IF pending THEN closed ELSE rows)
    ELSE LET char == csvText[i] IN
         IF char = 34
         THEN IF inQuotes /\ i + 1 <= Len(csvText) /\ csvText[i + 1] = 34
              THEN LET value == Append(currentValue, 34) IN
                   Strict(value, CsvScan(csvText, i + 2, rows, currentRow, value, inQuotes))
              ELSE CsvScan(csvText, i + 1, rows, currentRow, currentValue, ~inQuotes)
         ELSE IF char = 44 /\ ~inQuotes
         THEN LET row == Append(currentRow, Trim(currentValue)) IN
              Strict(row, CsvScan(csvText, i + 1, rows, row, <<>>, inQuotes))
         ELSE IF char \in {10, 13} /\ ~inQuotes
         THEN LET next == IF char = 13 /\ i + 1 <= Len(csvText) /\ csvText[i + 1] = 10
                          THEN i + 2 ELSE i + 1
                  kept == IF pending THEN closed ELSE rows
              IN  Strict(kept, CsvScan(csvText, next, kept, <<>>, <<>>, inQuotes))
         ELSE LET marks == {k \in (i + 1)..Len(csvText) : csvText[k] \in {34, 44, 10, 13}}
                  next  == IF marks = {} THEN Len(csvText) + 1 ELSE Least(marks)
                  value == currentValue \o [k \in 1..(next - i) |-> csvText[i + k - 1]]
              IN  Strict(value, CsvScan(csvText, next, rows, currentRow, value, inQuotes))

\* a row that parseCsvContent keeps (line 48)
CsvRowKept(row) == Len(row) > 0 /\ \E k \in 1..Len(row) : Len(row[k]) > 0

parseCsvContent(csvText) ==
    SelectSeq(CsvScan(csvText, 1, <<>>, <<>>, <<>>, FALSE), CsvRowKept)

\* ------------------------------------------------------------------------
\* The editor: the handlers of SheetTable and of App.  Row and cell indices
\* count from 0 as in the source; sequences count from 1.

\* handleCellChange (SheetTable.tsx lines 23-39): the sheet it hands to
\* onSheetDataChange
handleCellChange(sheet, rowIndex, cellIndex, value) ==
    LET columnType == sheet.columns[cellIndex + 1].type
        numValue   == ParseInt(StringOf(value))
        newCell    == IF columnType = INT
                      THEN (IF isNaN(numValue) THEN Num(0, 0) ELSE numValue)
                      ELSE StringOf(value)
    IN  [sheet EXCEPT !.rows =
            [rIdx \in 1..Len(sheet.rows) |->
                IF rIdx - 1 = rowIndex
                THEN [sheet.rows[rIdx] EXCEPT !.cells[cellIndex + 1] = newCell]
                ELSE sheet.rows[rIdx]]]

\* addRow (lines 41-48); now is what Date.now() returns
addRow(sheet, now) ==
    LET newRowCells == [c \in 1..Len(sheet.columns) |->
                          IF sheet.columns[c].type = INT THEN Num(0, 0) ELSE <<>>]
        newRow      == [id |-> <<"new-row", now>>, cells |-> newRowCells]
    IN  [sheet EXCEPT !.rows = Append(sheet.rows, newRow)]

\* deleteRow (lines 50-53)
deleteRow(sheet, rowIndex) ==
    [sheet EXCEPT !.rows =
        [k \in 1..(Len(sheet.rows) - 1) |->
            IF k - 1 < rowIndex THEN sheet.rows[k] ELSE sheet.rows[k + 1]]]

\* the updater of handleSheetDataChange (part_001 lines 105-113), with the
\* activeSheetIndex of the render that made the callback
handleSheetDataChange(prevMbeFile, index, updatedSheet) ==
    IF prevMbeFile = NoFile THEN NoFile
    ELSE [prevMbeFile EXCEPT !.sheets =
             [k \in 1..Len(prevMbeFile.sheets) |->
                 IF k - 1 = index THEN updatedSheet ELSE prevMbeFile.sheets[k]]]

\* an index of an array that was never assigned
Hole == [hole |-> TRUE]

\* the updaters of handleCsvImport (lines 139-144 and 171-176):
\* newSheets[index] = { ...newSheets[index], rows }.  Past the end of the
\* array the spread of undefined leaves an object that has rows only.
SetSheetRows(prevMbeFile, index, rows) ==
    IF prevMbeFile = NoFile THEN NoFile
    ELSE LET n == Len(prevMbeFile.sheets) IN
         [prevMbeFile EXCEPT !.sheets =
             [k \in 1..(IF index + 1 > n THEN index + 1 ELSE n) |->
                 IF k - 1 = index
                 THEN (IF k <= n /\ prevMbeFile.sheets[k] # Hole
                       THEN [prevMbeFile.sheets[k] EXCEPT !.rows = rows]
                       ELSE [rows |-> rows])
                 ELSE IF k <= n THEN prevMbeFile.sheets[k] ELSE Hole]]

\* String(undefined), which is how parseInt reads the cell a short row lacks
UndefinedText == <<117, 110, 100, 101, 102, 105, 110, 101, 100>>

\* the cells of one imported row (lines 160-167)
CsvCells(columns, csvRow) ==
    [cIdx \in 1..Len(columns) |->
        IF columns[cIdx].type = INT
        THEN LET numVal == ParseInt(IF cIdx <= Len(csvRow) THEN csvRow[cIdx]
                                    ELSE UndefinedText)
             IN  IF isNaN(numVal) THEN Num(0, 0) ELSE numVal
        ELSE IF cIdx <= Len(csvRow) THEN csvRow[cIdx] ELSE <<>>]

\* newMbeRows (lines 159-169)
newMbeRows(columns, dataRows, now) ==
    [rIdx \in 1..Len(dataRows) |->
        [id |-> <<"csv-row", now, rIdx - 1>>, cells |-> CsvCells(columns, dataRows[rIdx])]]

\* a run of digits beyond the doubles
ManyNines == [k \in 1..(MaxFiniteDigits + 1) |-> 57]

\* the CSV files a user imports, lines separated by / here:
\*   (empty)        a,b        a / x,1,2
\*   a,b / 12abc,"q,""r" / -3           a / abc / 999...9,1
CsvTexts ==
    { <<>>,
      <<97, 44, 98>>,
      <<97, 10, 120, 44, 49, 44, 50, 10>>,
      <<97, 44, 98, 13, 10, 49, 50, 97, 98, 99, 44, 34, 113, 44, 34, 34, 114, 34, 10,
        32, 45, 51, 10>>,
      <<97, 10, 97, 98, 99, 10>> \o ManyNines \o <<44, 49>> }

\* parseCsvContent of every text that is imported (line 128)
CsvData == [csvText \in CsvTexts |-> parseCsvContent(csvText)]

\* handleCsvImport from the text it awaited to its end (lines 128-184): the
\* file the updaters leave and the error it sets, "keep" where it sets none
CsvImportOutcome(call, prevMbeFile, now) ==
    LET parsedCsvData == CsvData[call.csvText]
        dataRows      == Tail(parsedCsvData)
        columns       == call.currentSheetSchema.columns
        index         == call.activeSheetIndex
    IN  IF Len(parsedCsvData) = 0
        THEN [file |-> prevMbeFile, error |-> "csv-empty"]
        ELSE IF Len(dataRows) = 0
        THEN [file  |-> SetSheetRows(prevMbeFile, index, <<>>),
              error |-> IF Len(parsedCsvData[1]) # Len(columns)
                        THEN "csv-header-mismatch" ELSE "csv-header-only"]
        ELSE IF Len(dataRows[1]) # Len(columns)
        THEN [file |-> prevMbeFile, error |-> "csv-data-mismatch"]
        ELSE [file  |-> SetSheetRows(prevMbeFile, index, newMbeRows(columns, dataRows, now)),
              error |-> "keep"]

\* the effect of lines 188-192 on activeSheetIndex
ClampSheetIndex(file, index) ==
    IF file # NoFile /\ Len(file.sheets) > 0 /\ index >= Len(file.sheets)
    THEN 0 ELSE index

\* currentSheet (line 194) is defined
HasCurrentSheet == mbeFile # NoFile /\ activeSheetIndex < Len(mbeFile.sheets)

currentSheet == mbeFile.sheets[activeSheetIndex + 1]

\* the render of App and SheetTable does not throw: SheetTable.tsx lines
\* 107-131 read the column of every cell of every row of currentSheet.  When
\* it throws the tree is unmounted and no handler is called any more.
Rendered ==
    HasCurrentSheet =>
        /\ "columns" \in DOMAIN currentSheet
        /\ \A r \in 1..Len(currentSheet.rows) :
              Len(currentSheet.rows[r].cells) <= Len(currentSheet.columns)

\* SheetTable is on the screen (part_001 lines 269-271)
TableShown == HasCurrentSheet /\ Rendered

\* ------------------------------------------------------------------------
\* The editor as a state machine: the handlers of App and SheetTable, each
\* enabled when the control that calls it is rendered and not disabled.

\* the most rows a sheet has when addRow is called
MaxEditRows == 1

\* the files a user opens: one of two sheets, (INT, STRID) with a row and a
\* sheet without columns, one of a single sheet (STR), one of a single sheet
\* (INT), and one that is too short to be parsed
EditLayouts ==
    { << <<Shapes[4], 1>>, <<Shapes[1], 0>> >>,
      << <<Shapes[3], 0>> >>,
      << <<Shapes[2], 0>> >> }

EditBuffers == { generateMbeFile(FileOf(layout, 0)).bytes : layout \in EditLayouts } \cup { <<>> }

\* what a user types into the input of an INT cell: 7, many nines
IntInputs == { <<55>>, ManyNines }

\* what a user types into the input of a string cell: hi
TextInputs == { <<104, 105>> }

\* what the input of a cell hands to handleCellChange (SheetTable.tsx line
\* 124): parseInt of the text for an INT cell, the text for a string cell
InputValues ==
    { JsNumber(ParseInt(text)) : text \in IntInputs }
        \cup { JsString(text) : text \in TextInputs }

\* what Date.now() returns to the editor
EditClock == {1}

InitEdit ==
    /\ mbeFile = NoFile
    /\ gen = NoGen
    /\ buffer = <<>>
    /\ damage = NoDamage
    /\ parsed = NoResult
    /\ pc = "editing"
    /\ resaved = NoGen
    /\ reparsed = NoResult
    /\ isLoading = FALSE
    /\ activeSheetIndex = 0
    /\ error = "none"
    /\ csvImport = NoCall
    /\ fileLoad = NoCall

\* handleFileChange up to its first await (part_001 lines 61-71); the input
\* is disabled while isLoading && !mbeFile (line 204)
FileChangeStart ==
    /\ pc = "editing"
    /\ Rendered
    /\ ~(isLoading /\ mbeFile = NoFile)
    /\ ~fileLoad.active
    /\ \E arrayBuffer \in EditBuffers :
          fileLoad' = [active |-> TRUE, arrayBuffer |-> arrayBuffer]
    /\ isLoading' = TRUE
    /\ error' = "none"
    /\ mbeFile' = NoFile
    /\ activeSheetIndex' = 0
    /\ UNCHANGED csvImport
    /\ UNCHANGED codecVars

\* handleFileChange from the parsed file to its end (lines 72-80)
FileChangeResume ==
    /\ pc = "editing"
    /\ Rendered
    /\ fileLoad.active
    /\ \E now \in EditClock :
          LET parsedFile == parseMbeFile(fileLoad.arrayBuffer, now) IN
          /\ mbeFile' = IF parsedFile.kind = "ok" THEN parsedFile.file ELSE mbeFile
          /\ error' = IF parsedFile.kind = "ok" THEN error ELSE "load-failed"
    /\ isLoading' = FALSE
    /\ activeSheetIndex' = ClampSheetIndex(mbeFile', activeSheetIndex)
    /\ fileLoad' = NoCall
    /\ UNCHANGED csvImport
    /\ UNCHANGED codecVars

\* a sheet tab is clicked (lines 248-267); the tabs have no disabled state
SelectSheet ==
    /\ pc = "editing"
    /\ Rendered
    /\ mbeFile # NoFile
    /\ Len(mbeFile.sheets) > 1
    /\ \E index \in 0..(Len(mbeFile.sheets) - 1) :
          activeSheetIndex' = ClampSheetIndex(mbeFile, index)
    /\ UNCHANGED <<mbeFile, isLoading, error, csvImport, fileLoad>>
    /\ UNCHANGED codecVars

\* the Add Row button (SheetTable.tsx lines 41-48), disabled while isLoading
AddRow ==
    /\ pc = "editing"
    /\ TableShown
    /\ ~isLoading
    /\ Len(currentSheet.rows) < MaxEditRows
    /\ \E now \in EditClock :
          mbeFile' = handleSheetDataChange(mbeFile, activeSheetIndex, addRow(currentSheet, now))
    /\ UNCHANGED editorVars
    /\ UNCHANGED codecVars

\* a Delete button (lines 50-53), disabled while isLoading
DeleteRow ==
    /\ pc = "editing"
    /\ TableShown
    /\ ~isLoading
    /\ \E rowIndex \in 0..(Len(currentSheet.rows) - 1) :
          mbeFile' = handleSheetDataChange(mbeFile, activeSheetIndex,
                                           deleteRow(currentSheet, rowIndex))
    /\ UNCHANGED editorVars
    /\ UNCHANGED codecVars

\* the input of a cell changes (lines 23-39 and 124): an INT cell hands
\* parseInt of the text to handleCellChange, a string cell the text
CellChange ==
    /\ pc = "editing"
    /\ TableShown
    /\ ~isLoading
    /\ \E rowIndex \in 0..(Len(currentSheet.rows) - 1) :
       \E cellIndex \in 0..(Len(currentSheet.rows[rowIndex + 1].cells) - 1) :
       \E value \in InputValues :
          /\ currentSheet.columns[cellIndex + 1].type = INT <=> value.type = "number"
          /\ mbeFile' = handleSheetDataChange(mbeFile, activeSheetIndex,
                 handleCellChange(currentSheet, rowIndex, cellIndex, value))
    /\ UNCHANGED editorVars
    /\ UNCHANGED codecVars

\* handleCsvImport up to `await file.text()` (part_001 lines 115-127); the
\* input is disabled while !mbeFile || !currentSheet || isLoading (line 228).
\* Of the sheet it captures, the rest of the handler reads the columns only.
CsvImportStart ==
    /\ pc = "editing"
    /\ Rendered
    /\ HasCurrentSheet
    /\ ~isLoading
    /\ ~csvImport.active
    /\ \E csvText \in CsvTexts :
          csvImport' = [active             |-> TRUE,
                        csvText            |-> csvText,
                        currentSheetSchema |-> [columns |-> currentSheet.columns],
                        activeSheetIndex   |-> activeSheetIndex]
    /\ isLoading' = TRUE
    /\ error' = "none"
    /\ UNCHANGED <<mbeFile, activeSheetIndex, fileLoad>>
    /\ UNCHANGED codecVars

\* handleCsvImport from the text to its end (lines 128-184)
CsvImportResume ==
    /\ pc = "editing"
    /\ Rendered
    /\ csvImport.active
    /\ \E now \in EditClock :
          LET outcome == CsvImportOutcome(csvImport, mbeFile, now) IN
          /\ mbeFile' = outcome.file
          /\ error' = IF outcome.error = "keep" THEN error ELSE outcome.error
    /\ isLoading' = FALSE
    /\ activeSheetIndex' = ClampSheetIndex(mbeFile', activeSheetIndex)
    /\ csvImport' = NoCall
    /\ UNCHANGED fileLoad
    /\ UNCHANGED codecVars

NextEdit ==
    \/ FileChangeStart
    \/ FileChangeResume
    \/ SelectSheet
    \/ AddRow
    \/ DeleteRow
    \/ CellChange
    \/ CsvImportStart
    \/ CsvImportResume

SpecEdit == InitEdit /\ [][NextEdit]_vars

\* the sheets of the loaded file have the shape of sheets
EditTypeOK ==
    /\ isLoading \in BOOLEAN
    /\ activeSheetIndex \in 0..MaxSheets
    /\ csvImport.active \in BOOLEAN
    /\ fileLoad.active \in BOOLEAN

\* ------------------------------------------------------------------------
\* C24.  The invariants of a sheet, and the steps of the editor that are to
\* preserve them.

\* a cell of a string column holds a string: a sequence of code units
IsStringValue(cell) == \A k \in 1..Len(cell) : cell[k] \in 0..65535

\* the invariants of a sheet: it has its columns, every row has one cell for
\* each column, an INT cell holds a number that okNumber admits and any
\* other cell a string
SheetInvariantsFor(sheet, okNumbers) ==
    /\ DOMAIN sheet = {"name", "columns", "rows", "parsedExpaAreaSizePerRow"}
    /\ \A r \in 1..Len(sheet.rows) :
          /\ Len(sheet.rows[r].cells) = Len(sheet.columns)
          /\ \A c \in 1..Len(sheet.columns) :
                IF sheet.columns[c].type = INT
                THEN \/ IsIntegerNumber(sheet.rows[r].cells[c])
                     \/ sheet.rows[r].cells[c] \in okNumbers
                ELSE IsStringValue(sheet.rows[r].cells[c])

SheetInvariants(sheet) == SheetInvariantsFor(sheet, {})

\* a step of addRow, deleteRow or handleCellChange: the only steps that
\* change the sheets of a loaded file and leave both suspended calls alone
TableStep ==
    /\ mbeFile # NoFile
    /\ mbeFile' # NoFile
    /\ mbeFile' # mbeFile
    /\ csvImport' = csvImport
    /\ fileLoad' = fileLoad

\* a step that completes a CSV import into the sheet it was started on: the
\* sheet at the captured index has the captured columns
CsvStep ==
    /\ csvImport.active
    /\ ~csvImport'.active
    /\ mbeFile # NoFile
    /\ csvImport.activeSheetIndex < Len(mbeFile.sheets)
    /\ "columns" \in DOMAIN mbeFile.sheets[csvImport.activeSheetIndex + 1]
    /\ mbeFile.sheets[csvImport.activeSheetIndex + 1].columns
           = csvImport.currentSheetSchema.columns

\* the step leaves the sheet at index with its invariants, its name and its
\* columns, if it had the invariants before
SheetPreserved(index, okNumbers) ==
    SheetInvariants(mbeFile.sheets[index + 1]) =>
        /\ Len(mbeFile'.sheets) = Len(mbeFile.sheets)
        /\ SheetInvariantsFor(mbeFile'.sheets[index + 1], okNumbers)
        /\ mbeFile'.sheets[index + 1].name = mbeFile.sheets[index + 1].name
        /\ mbeFile'.sheets[index + 1].columns = mbeFile.sheets[index + 1].columns

\* C24: every step of addRow, deleteRow and handleCellChange, and every CSV
\* import completed on the sheet it was started on, takes a sheet that has
\* the invariants (every row has columns.length cells, every INT cell is an
\* integer, every other cell a string) to a sheet that has them, with the
\* same name and columns.
C24_EditsPreserveInvariants ==
    [][ /\ TableStep => SheetPreserved(activeSheetIndex, {})
        /\ CsvStep => SheetPreserved(csvImport.activeSheetIndex, {}) ]_vars

\* the same, but for the infinities an INT cell may come to hold; this is
\* what the handlers do preserve
C24_EditsPreserveButInfinity ==
    [][ /\ TableStep => SheetPreserved(activeSheetIndex, {PosInfinity, NegInfinity})
        /\ CsvStep => SheetPreserved(csvImport.activeSheetIndex,
                                     {PosInfinity, NegInfinity}) ]_vars

\* a CSV import was completed that left rows shorter and longer than the
\* header handled: a sheet holds a row made by the import with a 0 where the
\* text was no number
C24_Witness ==
    /\ mbeFile # NoFile
    /\ \E i \in 1..Len(mbeFile.sheets) :
          /\ SheetInvariantsFor(mbeFile.sheets[i], {PosInfinity})
          /\ Len(mbeFile.sheets[i].rows) = 2
          /\ mbeFile.sheets[i].rows[1].id[1] = "csv-row"
          /\ mbeFile.sheets[i].rows[1].cells[1] = Num(0, 0)
          /\ mbeFile.sheets[i].rows[2].cells[1] = PosInfinity

\* ------------------------------------------------------------------------
\* C25.  The errors of a column count that does not match.

MismatchErrors == {"csv-header-mismatch", "csv-data-mismatch"}

\* C25: a CSV import that ends with the error that the column count of the
\* header (of a CSV that has a header only) or of the first data row does not
\* match the column count of the sheet leaves the loaded file as it was.
C25_MismatchLeavesFile ==
    [][ (CsvStep /\ error' \in MismatchErrors) => mbeFile' = mbeFile ]_vars

\* the half of it that the handler keeps: the error about the first data row
\* is raised before any update of the file
C25_DataMismatchLeavesFile ==
    [][ (CsvStep /\ error' = "csv-data-mismatch") => mbeFile' = mbeFile ]_vars

\* what the handler does with a header that does not match: whatever the
\* column count of the header, the rows of the sheet are gone
C25_HeaderOnlyClears ==
    [][ (CsvStep /\ error' \in {"csv-header-mismatch", "csv-header-only"})
            => mbeFile'.sheets[csvImport.activeSheetIndex + 1].rows = <<>> ]_vars

\* ------------------------------------------------------------------------
\* C26.  A CSV import that is suspended while another file is loaded.

\* the files that handleFileChange can load
OpenedFiles ==
    { p.file : p \in { q \in { parseMbeFile(b, 1) : b \in EditBuffers } : q.kind = "ok" } }

\* the sheets of the loaded file are those of a file that was opened, by
\* number, name and columns
KeepsNamesAndColumns ==
    \E f \in OpenedFiles :
        /\ Len(f.sheets) = Len(mbeFile.sheets)
        /\ \A i \in 1..Len(f.sheets) :
              /\ {"name", "columns"} \subseteq DOMAIN mbeFile.sheets[i]
              /\ mbeFile.sheets[i].name = f.sheets[i].name
              /\ mbeFile.sheets[i].columns = f.sheets[i].columns

\* every row of every sheet of the loaded file has one cell for each column
RowsFitColumns ==
    \A i \in 1..Len(mbeFile.sheets) :
        /\ {"rows", "columns"} \subseteq DOMAIN mbeFile.sheets[i]
        /\ \A r \in 1..Len(mbeFile.sheets[i].rows) :
              Len(mbeFile.sheets[i].rows[r].cells) = Len(mbeFile.sheets[i].columns)

\* C26: under every interleaving of a suspended handleCsvImport with
\* handleFileChange and with changes of the sheet tab, the loaded file has
\* rows[*].cells.length = columns.length in every sheet, and every sheet has
\* the name and the columns it was loaded with.
C26_ImportKeepsSchema ==
    mbeFile # NoFile => (RowsFitColumns /\ KeepsNamesAndColumns)

\* the same for the imports that complete on the sheet they were started on,
\* whatever tab was chosen meanwhile: the rows are installed at the captured
\* index and the file keeps its shape
C26_SameSheetKeepsSchema ==
    [][ (CsvStep /\ RowsFitColumns /\ KeepsNamesAndColumns)
            => (RowsFitColumns' /\ KeepsNamesAndColumns') ]_vars

\* the first half of the sentence on its own: an import that changes the
\* loaded file writes to a sheet that has the columns of the captured schema
C26_RowsLandOnSchema ==
    [][ (csvImport.active /\ ~csvImport'.active /\ mbeFile' # mbeFile) => CsvStep ]_vars

=========================================================================
